---- MODULE Spec2Model ----
(***************************************************************************)
(* Version store of workspace templates (pkg/workspace_template.go):       *)
(* CreateWorkspaceTemplate, UpdateWorkspaceTemplate, GetWorkspaceTemplate  *)
(* and ArchiveWorkspaceTemplate over the relational tables                 *)
(* workspace_templates / workspace_template_versions, the workflow         *)
(* template collaborator and the workspace (instance) collaborator.        *)
(*                                                                         *)
(* Every database statement and every collaborator call of a handler is    *)
(* one step of the calling process.  A transaction is a private write      *)
(* buffer that is applied to the committed tables by Commit and dropped by *)
(* Rollback (READ COMMITTED, the isolation level of DB.Begin()).           *)
(***************************************************************************)
EXTENDS Integers, Sequences, FiniteSets, TLC

\* ---------------------------------------------------------------- bounds
Procs == {"p1", "p2"}
Namespaces == {"ns1"}
Names == {"ml-1", "ml-2"}
\* what a caller submits with a create or an update
Submissions == {[Manifest |-> "m1", Labels |-> "l1", Description |-> "d1"],
                [Manifest |-> "m2", Labels |-> "l2", Description |-> "d2"]}
MaxCalls == 3        \* calls of the API in one behaviour
MaxWorkspaces == 2   \* instances created in one behaviour

VARIABLES
    workspace_templates,          \* committed rows of table workspace_templates
    workspace_template_versions,  \* committed rows of table workspace_template_versions
    workflow_templates,           \* collaborator: rows of workflow_templates
    workflow_template_versions,   \* collaborator: rows of workflow_template_versions
    workspaces,                   \* collaborator: rows of workspaces (instances)
    pc,                           \* position of each caller inside its handler
    op,                           \* locals of the handler each caller is running
    tx,                           \* open transaction (write buffer) of each caller
    ret,                          \* what the last finished call of each caller returned
    commits,                      \* (version row id, submitted manifest) in commit order
    calls,                        \* number of API calls made so far
    compile,                      \* locals of generateWorkspaceTemplateWorkflowTemplate
    run,                          \* one execution of a compiled definition
    list                          \* one call of NamespaceServer.ListNamespaces

vars == <<workspace_templates, workspace_template_versions, workflow_templates,
          workflow_template_versions, workspaces, pc, op, tx, ret, commits, calls,
          compile, run, list>>

store == <<workspace_templates, workspace_template_versions>>
collaborators == <<workflow_templates, workflow_template_versions, workspaces>>

\* ---------------------------------------------------------------- helpers
Max(S) == CHOOSE x \in S : \A y \in S : y <= x

FreshID(ids) == IF ids = {} THEN 1 ELSE Max(ids) + 1

NoTx == [active |-> FALSE, wt |-> {}, wtv |-> {}, outdated |-> {}, wtUpd |-> {}]

NoOp == [kind |-> "none", Namespace |-> "", Name |-> "", UID |-> "", Version |-> 0,
         Manifest |-> "", Labels |-> "", Description |-> "", ID |-> 0,
         WorkflowTemplateID |-> 0, WorkspaceTemplateVersionID |-> 0,
         candidates |-> {}, wsList |-> <<>>, enumerated |-> {},
         err |-> "nil", cleanup |-> "none", before |-> <<>>,
         archived |-> FALSE]

NoRet == [kind |-> "none", err |-> "nil", message |-> "", cleanup |-> "none",
          archived |-> FALSE, at |-> "idle"]

Result(o, err, message, archived) ==
    [kind |-> o.kind, err |-> err, message |-> message, cleanup |-> o.cleanup,
     archived |-> archived, at |-> "idle"]

\* GenerateUID: the UID is derived from the human name; the names used here
\* are already in UID form.
GenerateUID(name) == name

\* ids handed out by the tables' sequences: never one that a committed row
\* or an open transaction holds.
NextWorkspaceTemplateID ==
    FreshID({r.id : r \in workspace_templates} \cup
            UNION {{r.id : r \in tx[q].wt} : q \in Procs})

NextWorkspaceTemplateVersionID ==
    FreshID({r.id : r \in workspace_template_versions} \cup
            UNION {{r.id : r \in tx[q].wtv} : q \in Procs})

\* A return: the deferred tx.Rollback() drops what was not committed; the
\* result remembers the statement the handler returned from.
Return(p, r) ==
    /\ pc' = [pc EXCEPT ![p] = "idle"]
    /\ op' = [op EXCEPT ![p] = NoOp]
    /\ tx' = [tx EXCEPT ![p] = NoTx]
    /\ ret' = [ret EXCEPT ![p] = [r EXCEPT !.at = pc[p]]]

Goto(p, label, o) ==
    /\ pc' = [pc EXCEPT ![p] = label]
    /\ op' = [op EXCEPT ![p] = o]
    /\ ret' = [ret EXCEPT ![p] = NoRet]

AllIdle == \A q \in Procs : pc[q] = "idle"

\* one more call of the API
CountCall == calls < MaxCalls /\ calls' = calls + 1

\* ---------------------------------------------------------------- transactions
\* tx.Commit(): the buffered statements become visible at once.
CommitVersions(rows, t) ==
    {IF r.id \in t.outdated THEN [r EXCEPT !.is_latest = FALSE] ELSE r : r \in rows}
        \cup t.wtv

CommitTemplates(rows, t, o) ==
    {IF r.id \in t.wtUpd
        THEN [r EXCEPT !.labels = o.Labels, !.description = o.Description]
        ELSE r : r \in rows} \cup t.wt

\* The version row a transaction inserted (each handler inserts exactly one).
InsertedVersion(t) == CHOOSE r \in t.wtv : TRUE

\* Row locks: an UPDATE waits while another open transaction has an
\* uncommitted update of one of the rows it is about to write.
VersionRowsLocked(p, ids) ==
    \E q \in Procs \ {p} : tx[q].outdated \cap ids # {}

TemplateRowsLocked(p, ids) ==
    \E q \in Procs \ {p} : tx[q].wtUpd \cap ids # {}

\* ---------------------------------------------------------------- queries
\* Variant: the filter on is_archived is inverted.
getWorkspaceTemplateByName_Archived(namespace, name) ==
    {r \in workspace_templates :
        /\ r.namespace = namespace
        /\ r.name = name
        /\ r.is_archived = TRUE}

\* getWorkspaceTemplateByName: the rows its SELECT ... LIMIT 1 may return.
getWorkspaceTemplateByName(namespace, name) ==
    {r \in workspace_templates :
        /\ r.namespace = namespace
        /\ r.name = name
        /\ r.is_archived = FALSE}

\* workspaceTemplateVersionsSelectBuilder: wt JOIN wtv JOIN wft JOIN wftv
\* restricted to (uid, namespace).
workspaceTemplateVersionsSelectBuilder(namespace, uid) ==
    {[wt |-> t, wtv |-> v, wft |-> f, wftv |-> fv] :
        t \in {r \in workspace_templates : r.uid = uid /\ r.namespace = namespace},
        v \in workspace_template_versions,
        f \in workflow_templates,
        fv \in workflow_template_versions}

JoinedRows(namespace, uid) ==
    {j \in workspaceTemplateVersionsSelectBuilder(namespace, uid) :
        /\ j.wtv.workspace_template_id = j.wt.id
        /\ j.wft.id = j.wt.workflow_template_id
        /\ j.wftv.workflow_template_id = j.wft.id}

\* Variant: an explicit version is matched against wftv.version only.
GetWorkspaceTemplate_DefinitionVersionOnly(namespace, uid, version) ==
    {j \in JoinedRows(namespace, uid) :
        /\ j.wt.is_archived = FALSE
        /\ IF version = 0
              THEN j.wtv.is_latest /\ j.wftv.is_latest
              ELSE j.wftv.version = version}

\* Variant: the filter wt.is_archived = false is missing.
GetWorkspaceTemplate_WithArchived(namespace, uid, version) ==
    {j \in JoinedRows(namespace, uid) :
        IF version = 0
           THEN j.wtv.is_latest /\ j.wftv.is_latest
           ELSE j.wtv.version = version /\ j.wftv.version = version}

\* Variant: an explicit version is not filtered on; the latest row is returned.
GetWorkspaceTemplate_AlwaysLatest(namespace, uid, version) ==
    {j \in JoinedRows(namespace, uid) :
        /\ j.wt.is_archived = FALSE
        /\ j.wtv.is_latest /\ j.wftv.is_latest}

\* GetWorkspaceTemplate: the rows its query may return (LIMIT 1 picks one);
\* the empty set is sql.ErrNoRows, i.e. (nil, nil).
GetWorkspaceTemplate(namespace, uid, version) ==
    {j \in JoinedRows(namespace, uid) :
        /\ j.wt.is_archived = FALSE
        /\ IF version = 0
              THEN j.wtv.is_latest /\ j.wftv.is_latest
              ELSE j.wtv.version = version /\ j.wftv.version = version}

\* ---------------------------------------------------------------- collaborators
\* createWorkflowTemplate: registers the compiled definition; it gets an id
\* of its own, the UID generated from its name, and version 1.
createWorkflowTemplate(namespace, name, manifest) ==
    LET id == FreshID({r.id : r \in workflow_templates}) IN
    [row |-> [id |-> id, uid |-> GenerateUID(name), namespace |-> namespace,
              is_archived |-> FALSE],
     version |-> [workflow_template_id |-> id, version |-> 1, is_latest |-> TRUE,
                  manifest |-> manifest]]

\* CreateWorkflowTemplateVersion: appends the next version of a definition
\* and makes it the latest one.
CreateWorkflowTemplateVersion(id, manifest) ==
    LET mine == {r \in workflow_template_versions : r.workflow_template_id = id}
        next == FreshID({r.version : r \in mine})
    IN  {IF r \in mine THEN [r EXCEPT !.is_latest = FALSE] ELSE r :
            r \in workflow_template_versions}
        \cup {[workflow_template_id |-> id, version |-> next, is_latest |-> TRUE,
               manifest |-> manifest]}

\* ArchiveWorkflowTemplate: marks the definition(s) of (namespace, uid) archived.
ArchiveWorkflowTemplate(namespace, uid) ==
    {IF r.namespace = namespace /\ r.uid = uid
        THEN [r EXCEPT !.is_archived = TRUE] ELSE r : r \in workflow_templates}

\* ---------------------------------------------------------------- CreateWorkspaceTemplate
\* The call: govalidator.ValidateStruct, then the handler is under way.
CreateWorkspaceTemplate(p) ==
    /\ pc[p] = "idle"
    /\ CountCall
    /\ \E namespace \in Namespaces, name \in Names, s \in Submissions, valid \in BOOLEAN :
          LET o == [NoOp EXCEPT !.kind = "create", !.before = store,
                                !.Namespace = namespace,
                                !.Name = name, !.Manifest = s.Manifest,
                                !.Labels = s.Labels, !.Description = s.Description]
          IN  IF valid
                 THEN /\ Goto(p, "getWorkspaceTemplateByName", o)
                      /\ tx' = tx
                 ELSE Return(p, Result(o, "InvalidArgument", "", FALSE))
    /\ UNCHANGED <<list, compile, run, store, collaborators, commits>>

\* The existence check, then the (pure) compilation of the definition.
CreateCheckExisting(p) ==
    /\ pc[p] = "getWorkspaceTemplateByName"
    /\ LET o == op[p]
           existing == getWorkspaceTemplateByName(o.Namespace, o.Name)
       IN  \/ Return(p, Result(o, "Internal", "", FALSE))      \* the query failed
           \/ /\ existing # {}
              /\ \E e \in existing :
                    Return(p, Result(o, "AlreadyExists",
                                     IF e.is_archived THEN "archived already exists"
                                                      ELSE "already exists", FALSE))
           \/ /\ existing = {}
              /\ \/ \E err \in {"InvalidArgument", "Internal"} :   \* generate... failed
                        Return(p, Result(o, err, "", FALSE))
                 \/ /\ Goto(p, "createWorkflowTemplate", [o EXCEPT !.UID = GenerateUID(o.Name)])
                    /\ tx' = tx
    /\ UNCHANGED <<list, compile, run, store, collaborators, commits, calls>>

\* validateWorkflowTemplate, then createWorkflowTemplate (step 4).
CreateRegister(p) ==
    /\ pc[p] = "createWorkflowTemplate"
    /\ LET o == op[p]
           created == createWorkflowTemplate(o.Namespace, o.Name, o.Manifest)
       IN  \/ /\ \E err \in {"InvalidArgument", "Unknown"} :
                    Return(p, Result(o, err, "", FALSE))
              /\ UNCHANGED <<workflow_templates, workflow_template_versions>>
           \/ /\ workflow_templates' = workflow_templates \cup {created.row}
              /\ workflow_template_versions' =
                    workflow_template_versions \cup {created.version}
              /\ Goto(p, "insertWorkspaceTemplate",
                      [o EXCEPT !.WorkflowTemplateID = created.row.id,
                                !.Version = created.version.version])
              /\ tx' = tx
    /\ UNCHANGED <<list, compile, run, store, workspaces, commits, calls>>

\* Variant: the INSERT runs on c.DB instead of tx, outside the transaction.
CreateInsertTemplate_RunWithDB(p) ==
    /\ pc[p] = "insertWorkspaceTemplate"
    /\ LET o == op[p] IN
       \/ /\ Return(p, Result(o, "Internal", "", FALSE))
          /\ UNCHANGED workspace_templates
       \/ /\ Goto(p, "cleanUp", [o EXCEPT !.err = "Unknown"])
          /\ tx' = [tx EXCEPT ![p] = [NoTx EXCEPT !.active = TRUE]]
          /\ UNCHANGED workspace_templates
       \/ LET id == NextWorkspaceTemplateID
              row == [id |-> id, uid |-> o.UID, name |-> o.Name,
                      description |-> o.Description, namespace |-> o.Namespace,
                      workflow_template_id |-> o.WorkflowTemplateID,
                      labels |-> o.Labels, is_archived |-> FALSE]
          IN  /\ tx' = [tx EXCEPT ![p] = [NoTx EXCEPT !.active = TRUE]]
              /\ workspace_templates' = workspace_templates \cup {row}
              /\ Goto(p, "createWorkspaceTemplateVersionDB", [o EXCEPT !.ID = id])
    /\ UNCHANGED <<list, compile, run, workspace_template_versions, collaborators, commits, calls>>

\* c.DB.Begin() and INSERT INTO workspace_templates ... RunWith(tx).
CreateInsertTemplate(p) ==
    /\ pc[p] = "insertWorkspaceTemplate"
    /\ LET o == op[p] IN
       \/ Return(p, Result(o, "Internal", "", FALSE))          \* Begin failed
       \/ /\ Goto(p, "cleanUp", [o EXCEPT !.err = "Unknown"])   \* the insert failed
          /\ tx' = [tx EXCEPT ![p] = [NoTx EXCEPT !.active = TRUE]]
       \/ LET id == NextWorkspaceTemplateID
              row == [id |-> id, uid |-> o.UID, name |-> o.Name,
                      description |-> o.Description, namespace |-> o.Namespace,
                      workflow_template_id |-> o.WorkflowTemplateID,
                      labels |-> o.Labels, is_archived |-> FALSE]
          IN  /\ tx' = [tx EXCEPT ![p] = [NoTx EXCEPT !.active = TRUE, !.wt = {row}]]
              /\ Goto(p, "createWorkspaceTemplateVersionDB", [o EXCEPT !.ID = id])
    /\ UNCHANGED <<list, compile, run, store, collaborators, commits, calls>>

\* createWorkspaceTemplateVersionDB: the row of one version, as inserted.
createWorkspaceTemplateVersionDB(id, template) ==
    [id |-> id, version |-> template.Version, is_latest |-> TRUE,
     manifest |-> template.Manifest, workspace_template_id |-> template.ID,
     labels |-> template.Labels]

CreateInsertVersion(p) ==
    /\ pc[p] = "createWorkspaceTemplateVersionDB"
    /\ LET o == op[p] IN
       \/ /\ Goto(p, "cleanUp", [o EXCEPT !.err = "Unknown"])   \* the insert failed
          /\ tx' = tx
       \/ /\ tx' = [tx EXCEPT ![p].wtv =
                      {createWorkspaceTemplateVersionDB(NextWorkspaceTemplateVersionID, o)}]
          /\ Goto(p, "commitCreate", o)
    /\ UNCHANGED <<list, compile, run, store, collaborators, commits, calls>>

CreateCommit(p) ==
    /\ pc[p] = "commitCreate"
    /\ LET o == op[p] IN
       \/ /\ Goto(p, "cleanUp", [o EXCEPT !.err = "Internal"])  \* Commit failed
          /\ tx' = tx
          /\ UNCHANGED <<store, commits>>
       \/ /\ workspace_templates' = CommitTemplates(workspace_templates, tx[p], o)
          /\ workspace_template_versions' =
                CommitVersions(workspace_template_versions, tx[p])
          /\ commits' = Append(commits, [id |-> InsertedVersion(tx[p]).id, Manifest |-> o.Manifest])
          /\ Return(p, Result(o, "nil", "", FALSE))
    /\ UNCHANGED <<list, compile, run, collaborators, calls>>

\* The compensation: ArchiveWorkflowTemplate on the registered definition,
\* then the original error is returned (the deferred Rollback ends the tx).
CreateCleanUp(p) ==
    /\ pc[p] = "cleanUp"
    /\ LET o == op[p] IN
       \/ /\ workflow_templates' = ArchiveWorkflowTemplate(o.Namespace, o.UID)
          /\ Return(p, Result([o EXCEPT !.cleanup = "ok"], o.err, "", FALSE))
       \/ /\ workflow_templates' = workflow_templates
          /\ Return(p, Result([o EXCEPT !.cleanup = "failed"], o.err, "", FALSE))
    /\ UNCHANGED <<list, compile, run, store, workflow_template_versions, workspaces, commits, calls>>

\* ---------------------------------------------------------------- UpdateWorkspaceTemplate
UpdateWorkspaceTemplate(p) ==
    /\ pc[p] = "idle"
    /\ CountCall
    /\ \E namespace \in Namespaces, uid \in Names, version \in 0 .. MaxCalls,
          s \in Submissions :
          Goto(p, "GetWorkspaceTemplate",
               [NoOp EXCEPT !.kind = "update", !.before = store,
                            !.Namespace = namespace, !.UID = uid,
                            !.Version = version, !.Manifest = s.Manifest,
                            !.Labels = s.Labels, !.Description = s.Description])
    /\ UNCHANGED <<list, compile, run, store, collaborators, tx, commits>>

\* GetWorkspaceTemplate(namespace, UID, Version), then the recompilation.
UpdateGet(p) ==
    /\ pc[p] = "GetWorkspaceTemplate"
    /\ LET o == op[p]
           found == GetWorkspaceTemplate(o.Namespace, o.UID, o.Version)
       IN  \/ Return(p, Result(o, "Internal", "", FALSE))      \* the query failed
           \/ /\ found = {}
              /\ Return(p, Result(o, "NotFound", "", FALSE))
           \/ /\ found # {}
              /\ \/ \E err \in {"InvalidArgument", "Internal"} :   \* generate... failed
                        Return(p, Result(o, err, "", FALSE))
                 \/ \E existing \in found :
                      /\ Goto(p, "CreateWorkflowTemplateVersion",
                              [o EXCEPT !.ID = existing.wt.id,
                                        !.Name = existing.wt.uid,
                                        !.Namespace = existing.wt.namespace,
                                        !.WorkflowTemplateID = existing.wft.id])
                      /\ tx' = tx
    /\ UNCHANGED <<list, compile, run, store, collaborators, commits, calls>>

UpdateCreateVersion(p) ==
    /\ pc[p] = "CreateWorkflowTemplateVersion"
    /\ LET o == op[p]
           versions == CreateWorkflowTemplateVersion(o.WorkflowTemplateID, o.Manifest)
           version == Max({r.version : r \in
                            {v \in versions : v.workflow_template_id = o.WorkflowTemplateID}})
       IN  \/ /\ \E err \in {"InvalidArgument", "Unknown"} :
                    Return(p, Result(o, err, "", FALSE))
              /\ UNCHANGED workflow_template_versions
           \/ /\ workflow_template_versions' = versions
              /\ Goto(p, "markWorkspaceTemplateVersionsOutdatedDB",
                      [o EXCEPT !.Version = version])
              /\ tx' = tx
    /\ UNCHANGED <<list, compile, run, store, workflow_templates, workspaces, commits, calls>>

\* Variant: the UPDATE matches no row (the WHERE clause tests is_latest = false).
markWorkspaceTemplateVersionsOutdatedDB_NoMatch(rows, workspaceTemplateID) ==
    {r.id : r \in {v \in rows : /\ v.workspace_template_id = workspaceTemplateID
                                /\ v.is_latest = FALSE}}

\* markWorkspaceTemplateVersionsOutdatedDB: the rows its WHERE clause selects.
markWorkspaceTemplateVersionsOutdatedDB(rows, workspaceTemplateID) ==
    {r.id : r \in {v \in rows : /\ v.workspace_template_id = workspaceTemplateID
                                /\ v.is_latest = TRUE}}

\* c.DB.Begin(), then the UPDATE of createLatestWorkspaceTemplateVersionDB
\* reads the rows to mark under the snapshot of the statement.
UpdateMarkOutdated(p) ==
    /\ pc[p] = "markWorkspaceTemplateVersionsOutdatedDB"
    /\ LET o == op[p] IN
       \/ Return(p, Result(o, "Internal", "", FALSE))          \* Begin or the UPDATE failed
       \/ /\ o.ID < 1
          /\ Return(p, Result(o, "Internal", "", FALSE))       \* "workspaceTemplate.ID is not set"
       \/ /\ o.ID >= 1
          /\ tx' = [tx EXCEPT ![p] = [NoTx EXCEPT !.active = TRUE]]
          /\ Goto(p, "lockVersionRows",
                  [o EXCEPT !.candidates =
                      markWorkspaceTemplateVersionsOutdatedDB(workspace_template_versions, o.ID)])
    /\ UNCHANGED <<list, compile, run, store, collaborators, commits, calls>>

\* Variant: the UPDATE runs on c.DB instead of tx, outside the transaction.
UpdateLockVersionRows_RunWithDB(p) ==
    /\ pc[p] = "lockVersionRows"
    /\ LET o == op[p] IN
       /\ ~VersionRowsLocked(p, o.candidates)
       /\ workspace_template_versions' =
             {IF r.id \in o.candidates THEN [r EXCEPT !.is_latest = FALSE] ELSE r :
                 r \in workspace_template_versions}
       /\ tx' = tx
       /\ Goto(p, "createLatestWorkspaceTemplateVersionDB", [o EXCEPT !.candidates = {}])
    /\ UNCHANGED <<list, compile, run, workspace_templates, collaborators, commits, calls>>

\* ... and writes them once no other transaction holds them, re-checking the
\* WHERE clause on the rows as they are committed by then.
UpdateLockVersionRows(p) ==
    /\ pc[p] = "lockVersionRows"
    /\ LET o == op[p] IN
       /\ ~VersionRowsLocked(p, o.candidates)
       /\ tx' = [tx EXCEPT ![p].outdated =
                    o.candidates \cap
                    markWorkspaceTemplateVersionsOutdatedDB(workspace_template_versions, o.ID)]
       /\ Goto(p, "createLatestWorkspaceTemplateVersionDB", [o EXCEPT !.candidates = {}])
    /\ UNCHANGED <<list, compile, run, store, collaborators, commits, calls>>

\* template.IsLatest = true; createWorkspaceTemplateVersionDB(tx, template)
UpdateInsertVersion(p) ==
    /\ pc[p] = "createLatestWorkspaceTemplateVersionDB"
    /\ LET o == op[p] IN
       \/ Return(p, Result(o, "Internal", "", FALSE))          \* the insert failed
       \/ /\ tx' = [tx EXCEPT ![p].wtv =
                      {createWorkspaceTemplateVersionDB(NextWorkspaceTemplateVersionID, o)}]
          /\ Goto(p, "updateWorkspaceTemplate", o)
    /\ UNCHANGED <<list, compile, run, store, collaborators, commits, calls>>

\* UPDATE workspace_templates SET labels, description WHERE uid, namespace
UpdateTemplateRow(p) ==
    /\ pc[p] = "updateWorkspaceTemplate"
    /\ LET o == op[p]
           rows == {r.id : r \in {t \in workspace_templates :
                                    t.uid = o.UID /\ t.namespace = o.Namespace}}
       IN  \/ Return(p, Result(o, "Internal", "", FALSE))      \* the UPDATE failed
           \/ /\ ~TemplateRowsLocked(p, rows)
              /\ tx' = [tx EXCEPT ![p].wtUpd = rows]
              /\ Goto(p, "commitUpdate", o)
    /\ UNCHANGED <<list, compile, run, store, collaborators, commits, calls>>

UpdateCommit(p) ==
    /\ pc[p] = "commitUpdate"
    /\ LET o == op[p] IN
       \/ /\ Return(p, Result(o, "Internal", "", FALSE))       \* Commit failed
          /\ UNCHANGED <<store, commits>>
       \/ /\ workspace_templates' = CommitTemplates(workspace_templates, tx[p], o)
          /\ workspace_template_versions' =
                CommitVersions(workspace_template_versions, tx[p])
          /\ commits' = Append(commits, [id |-> InsertedVersion(tx[p]).id, Manifest |-> o.Manifest])
          /\ Return(p, Result(o, "nil", "", FALSE))
    /\ UNCHANGED <<list, compile, run, collaborators, calls>>

\* ---------------------------------------------------------------- instances
\* An instance (workspace) is created from a version of an active template.
CreateWorkspace ==
    /\ Cardinality(workspaces) < MaxWorkspaces
    /\ \E t \in {r \in workspace_templates : ~r.is_archived} :
       \E v \in {r \in workspace_template_versions : r.workspace_template_id = t.id} :
          workspaces' = workspaces \cup
              {[uid |-> FreshID({w.uid : w \in workspaces}), namespace |-> t.namespace,
                workspace_template_id |-> t.id,
                workspace_template_version |-> v.version,
                is_archived |-> FALSE]}
    /\ UNCHANGED <<list, compile, run, store, workflow_templates, workflow_template_versions,
                   pc, op, tx, ret, commits, calls>>

\* ListWorkspacesByTemplateID: the live instances of one template id.
ListWorkspacesByTemplateID(namespace, templateID) ==
    {w.uid : w \in {r \in workspaces : /\ r.namespace = namespace
                                       /\ r.workspace_template_id = templateID
                                       /\ ~r.is_archived}}

\* ArchiveWorkspace: marks one instance archived.
ArchiveWorkspace(namespace, uid) ==
    {IF w.namespace = namespace /\ w.uid = uid
        THEN [w EXCEPT !.is_archived = TRUE] ELSE w : w \in workspaces}

\* The orders in which a result set may be returned.
Orderings(S) ==
    {s \in [1 .. Cardinality(S) -> S] : {s[i] : i \in 1 .. Cardinality(S)} = S}

\* ---------------------------------------------------------------- ArchiveWorkspaceTemplate
ArchiveWorkspaceTemplate(p) ==
    /\ pc[p] = "idle"
    /\ CountCall
    /\ \E namespace \in Namespaces, uid \in Names :
          Goto(p, "getLatest",
               [NoOp EXCEPT !.kind = "archive", !.before = store,
                            !.Namespace = namespace, !.UID = uid])
    /\ UNCHANGED <<list, compile, run, store, collaborators, tx, commits>>

\* wsTemp, err := c.GetWorkspaceTemplate(namespace, uid, 0)
ArchiveGet(p) ==
    /\ pc[p] = "getLatest"
    /\ LET o == op[p]
           found == GetWorkspaceTemplate(o.Namespace, o.UID, 0)
       IN  \/ Return(p, Result(o, "Unknown", "", FALSE))       \* the query failed
           \/ /\ found = {}
              /\ Return(p, Result(o, "not found", "", FALSE))
           \/ \E wsTemp \in found :
                /\ Goto(p, "ListWorkspacesByTemplateID",
                        [o EXCEPT !.UID = wsTemp.wt.uid, !.ID = wsTemp.wt.id,
                                  !.WorkspaceTemplateVersionID = wsTemp.wtv.id])
                /\ tx' = tx
    /\ UNCHANGED <<list, compile, run, store, collaborators, commits, calls>>

\* wsList, err := c.ListWorkspacesByTemplateID(namespace, wsTemp.WorkspaceTemplateVersionID)
ArchiveList(p) ==
    /\ pc[p] = "ListWorkspacesByTemplateID"
    /\ LET o == op[p]
           listed == ListWorkspacesByTemplateID(o.Namespace, o.WorkspaceTemplateVersionID)
       IN  \/ Return(p, Result(o, "Unknown", "", FALSE))
           \/ \E wsList \in Orderings(listed) :
                /\ Goto(p, IF listed = {} THEN "archiveWorkspaceTemplateDB"
                                          ELSE "ArchiveWorkspace",
                        [o EXCEPT !.wsList = wsList, !.enumerated = listed])
                /\ tx' = tx
    /\ UNCHANGED <<list, compile, run, store, collaborators, commits, calls>>

\* Variant: the loop is left after its first iteration.
ArchiveInstances_FirstOnly(p) ==
    /\ pc[p] = "ArchiveWorkspace"
    /\ LET o == op[p] IN
       \/ /\ Return(p, Result(o, "Unknown", "", FALSE))
          /\ UNCHANGED workspaces
       \/ /\ workspaces' = ArchiveWorkspace(o.Namespace, Head(o.wsList))
          /\ Goto(p, "archiveWorkspaceTemplateDB", [o EXCEPT !.wsList = <<>>])
          /\ tx' = tx
    /\ UNCHANGED <<list, compile, run, store, workflow_templates, workflow_template_versions, commits, calls>>

\* Variant: a failed instance is skipped over, the rest of the list is
\* archived, and the error is reported afterwards.
ArchiveInstances_BestEffort(p) ==
    /\ pc[p] = "ArchiveWorkspace"
    /\ LET o == op[p] IN
       \/ /\ Return(p, Result(o, "Unknown", "", FALSE))
          /\ workspaces' =
                {IF w.namespace = o.Namespace
                    /\ \E i \in 2 .. Len(o.wsList) : o.wsList[i] = w.uid
                    THEN [w EXCEPT !.is_archived = TRUE] ELSE w : w \in workspaces}
       \/ /\ workspaces' = ArchiveWorkspace(o.Namespace, Head(o.wsList))
          /\ Goto(p, IF Tail(o.wsList) = <<>> THEN "archiveWorkspaceTemplateDB"
                                              ELSE "ArchiveWorkspace",
                  [o EXCEPT !.wsList = Tail(o.wsList)])
          /\ tx' = tx
    /\ UNCHANGED <<list, compile, run, store, workflow_templates, workflow_template_versions, commits, calls>>

\* One iteration of: for _, ws := range wsList { c.ArchiveWorkspace(namespace, ws.UID) }
ArchiveInstances(p) ==
    /\ pc[p] = "ArchiveWorkspace"
    /\ LET o == op[p] IN
       \/ /\ Return(p, Result(o, "Unknown", "", FALSE))
          /\ UNCHANGED workspaces
       \/ /\ workspaces' = ArchiveWorkspace(o.Namespace, Head(o.wsList))
          /\ Goto(p, IF Tail(o.wsList) = <<>> THEN "archiveWorkspaceTemplateDB"
                                              ELSE "ArchiveWorkspace",
                  [o EXCEPT !.wsList = Tail(o.wsList)])
          /\ tx' = tx
    /\ UNCHANGED <<list, compile, run, store, workflow_templates, workflow_template_versions, commits, calls>>

\* archiveWorkspaceTemplateDB: the rows its UPDATE ... WHERE is_archived = false
\* hits; its result `archived` is whether there was one.
archiveWorkspaceTemplateDB(namespace, uid) ==
    {r.id : r \in {t \in workspace_templates : /\ t.uid = uid
                                               /\ t.namespace = namespace
                                               /\ t.is_archived = FALSE}}

\* _, err = c.archiveWorkspaceTemplateDB(namespace, wsTemp.UID): the result is
\* kept in op[p].archived only to be looked at; the handler drops it.
ArchiveTemplateRow(p) ==
    /\ pc[p] = "archiveWorkspaceTemplateDB"
    /\ LET o == op[p]
           rows == archiveWorkspaceTemplateDB(o.Namespace, o.UID)
       IN  \/ /\ Return(p, Result(o, "Unknown", "", FALSE))
              /\ UNCHANGED workspace_templates
           \/ /\ ~TemplateRowsLocked(p, rows)
              /\ workspace_templates' =
                    {IF r.id \in rows THEN [r EXCEPT !.is_archived = TRUE] ELSE r :
                        r \in workspace_templates}
              /\ Goto(p, "ArchiveWorkflowTemplate", [o EXCEPT !.archived = rows # {}])
              /\ tx' = tx
    /\ UNCHANGED <<list, compile, run, workspace_template_versions, collaborators, commits, calls>>

\* _, err = c.ArchiveWorkflowTemplate(namespace, wsTemp.UID); return true, nil
ArchiveDefinition(p) ==
    /\ pc[p] = "ArchiveWorkflowTemplate"
    /\ LET o == op[p] IN
       \/ /\ Return(p, Result(o, "Unknown", "", FALSE))
          /\ UNCHANGED workflow_templates
       \/ /\ workflow_templates' = ArchiveWorkflowTemplate(o.Namespace, o.UID)
          /\ Return(p, Result(o, "nil", "", TRUE))
    /\ UNCHANGED <<list, compile, run, store, workflow_template_versions, workspaces, commits, calls>>

\* ---------------------------------------------------------------- compilation
\* A WorkspaceSpec as parseWorkspaceSpec yields it. A volume mount is held by
\* its Name; a volume-claim template by its Name and by whether
\* Spec.Resources.Requests is set; a parameter by Name and Value.
VolumeNames == {"data", "cache", "sys-dshm", "sys-namespace-config"}
ContainerNames == <<"main", "sidecar">>
MaxMounts == 1       \* volume mounts of one container

\* the sequences over S of length at most n
SeqsUpTo(S, n) == UNION {[1 .. k -> S] : k \in 0 .. n}

ContainerLists ==
    UNION {{[i \in 1 .. k |-> [Name |-> ContainerNames[i], VolumeMounts |-> m[i]]] :
               m \in [1 .. k -> SeqsUpTo(VolumeNames, MaxMounts)]} :
           k \in 0 .. Len(ContainerNames)}

VolumeClaimTemplateLists ==
    {<<>>,
     <<[Name |-> "data", Requests |-> TRUE]>>,
     <<[Name |-> "data", Requests |-> FALSE]>>,
     <<[Name |-> "cache", Requests |-> FALSE], [Name |-> "cache", Requests |-> TRUE]>>}

ParameterLists ==
    {<<>>, <<[Name |-> "p1", Value |-> "v1"], [Name |-> "p2", Value |-> "v2"]>>}

WorkspaceSpecs ==
    [Containers : ContainerLists,
     VolumeClaimTemplates : VolumeClaimTemplateLists,
     Parameters : ParameterLists,
     PostExecutionWorkflow : BOOLEAN]

\* the SystemConfig: its node pool options
SystemConfigs == {[NodePoolOptions |-> <<>>], [NodePoolOptions |-> <<"pool-a", "pool-b">>]}

NoSpec == [Containers |-> <<>>, VolumeClaimTemplates |-> <<>>, Parameters |-> <<>>,
           PostExecutionWorkflow |-> FALSE]

\* workspaceTemplate.Manifest: empty, not a WorkspaceSpec, or the text of one
ManifestTexts ==
    {[raw |-> "", spec |-> NoSpec], [raw |-> "malformed", spec |-> NoSpec]}
        \cup {[raw |-> "yaml", spec |-> s] : s \in WorkspaceSpecs}

NoDocument == [kind |-> "none"]

NoCompile ==
    [Manifest |-> [raw |-> "", spec |-> NoSpec], config |-> [NodePoolOptions |-> <<>>],
     spec |-> NoSpec, serviceManifest |-> NoDocument,
     virtualServiceManifest |-> NoDocument, statefulSetManifest |-> NoDocument,
     workspaceManifest |-> NoDocument, workflowTemplateManifest |-> NoDocument]

\* the error of generateRuntimeParameters for an empty option list
InvalidConfiguration == "no node pool options in config"

\* Variant: an empty option list is not looked at.
generateRuntimeParameters_NoCheck(config) ==
    [err |-> "nil",
     parameters |-> <<[Name |-> "sys-host", Value |-> "domain"],
                      [Name |-> "sys-node-pool-label", Value |-> "label"]>>]

\* generateRuntimeParameters: sys-host, then the node pool parameters, or the
\* error when the config has no node pool option.
generateRuntimeParameters(config) ==
    IF Len(config.NodePoolOptions) = 0
       THEN [err |-> InvalidConfiguration, parameters |-> <<>>]
       ELSE [err |-> "nil",
             parameters |-> <<[Name |-> "sys-host", Value |-> "domain"],
                              [Name |-> "sys-node-pool-label", Value |-> "label"],
                              [Name |-> "sys-node-pool",
                               Value |-> config.NodePoolOptions[1]]>>]

\* the names of the volume mounts of all containers, in order
RECURSIVE VolumeMountNames(_)
VolumeMountNames(containers) ==
    IF containers = <<>> THEN <<>>
    ELSE Head(containers).VolumeMounts \o VolumeMountNames(Tail(containers))

\* the names of a list that are not in mapped, each once, in order of first
\* occurrence: the loops `if volumeClaimsMapped[v.Name] { continue } ...`
RECURSIVE NotMapped(_, _)
NotMapped(names, mapped) ==
    IF names = <<>> THEN <<>>
    ELSE IF Head(names) \in mapped
            THEN NotMapped(Tail(names), mapped)
            ELSE <<Head(names)>> \o NotMapped(Tail(names), mapped \cup {Head(names)})

\* the claim templates that have Spec.Resources.Requests set
volumeStorageQuantityIsSet(spec) ==
    {spec.VolumeClaimTemplates[i].Name : i \in
        {k \in 1 .. Len(spec.VolumeClaimTemplates) : spec.VolumeClaimTemplates[k].Requests}}

VolumeSizeParameter(name) ==
    [Name |-> "sys-" \o name \o "-volume-size", Value |-> "20480"]

systemVolumeParameters(spec) ==
    LET names == NotMapped(VolumeMountNames(spec.Containers),
                           volumeStorageQuantityIsSet(spec))
    IN  [i \in 1 .. Len(names) |-> VolumeSizeParameter(names[i])]

\* generateArguments: spec.Arguments.Parameters becomes the system parameters,
\* the parameters of the spec, then the volume size parameters.
generateArguments(spec, config) ==
    LET runtimeParameters == generateRuntimeParameters(config)
        systemParameters ==
            <<[Name |-> "sys-name", Value |-> "name"],
              [Name |-> "sys-resource-action", Value |-> "apply"],
              [Name |-> "sys-workspace-action", Value |-> "create"],
              [Name |-> "sys-uid", Value |-> "uid"]>> \o runtimeParameters.parameters
    IN  IF runtimeParameters.err # "nil"
           THEN [err |-> runtimeParameters.err, spec |-> spec]
           ELSE [err |-> "nil",
                 spec |-> [spec EXCEPT !.Parameters =
                              systemParameters \o spec.Parameters
                                  \o systemVolumeParameters(spec)]]

createServiceManifest(spec) == [kind |-> "Service"]

createVirtualServiceManifest(spec) == [kind |-> "VirtualService"]

createWorkspaceManifest(spec) == [kind |-> "Workspace"]

\* the storage request of a claim whose size is a parameter of the workflow
DynamicStorage(name) == "{{workflow.parameters.sys-" \o name \o "-volume-size}}Mi"

\* the claims the user has added, the first of each name
RECURSIVE DeclaredVolumeClaims(_, _)
DeclaredVolumeClaims(templates, mapped) ==
    IF templates = <<>> THEN <<>>
    ELSE LET v == Head(templates) IN
         IF v.Name \in mapped
            THEN DeclaredVolumeClaims(Tail(templates), mapped)
            ELSE <<[Name |-> v.Name,
                    storage |-> IF v.Requests THEN "requests.storage"
                                              ELSE DynamicStorage(v.Name)]>>
                    \o DeclaredVolumeClaims(Tail(templates), mapped \cup {v.Name})

\* Variant: the system volumes are not marked as mapped.
createStatefulSetManifest_NoReserved(spec) ==
    LET declared == DeclaredVolumeClaims(spec.VolumeClaimTemplates, {})
        volumeClaimsMapped == {declared[i].Name : i \in 1 .. Len(declared)}
        remaining == NotMapped(VolumeMountNames(spec.Containers), volumeClaimsMapped)
        volumeClaims ==
            declared \o [i \in 1 .. Len(remaining) |->
                            [Name |-> remaining[i], storage |-> DynamicStorage(remaining[i])]]
        containers ==
            [i \in 1 .. Len(spec.Containers) |->
                [spec.Containers[i] EXCEPT !.VolumeMounts = @ \o <<"sys-dshm">>]]
    IN  [spec |-> [spec EXCEPT !.Containers = containers],
         manifest |-> [kind |-> "StatefulSet", replicas |-> 1, containers |-> containers,
                       volumeClaimTemplates |-> volumeClaims]]

\* createStatefulSetManifest: the declared claims, then one claim for each
\* mounted volume that has none and is not a system volume; every container
\* of the spec gets the mount sys-dshm appended.
createStatefulSetManifest(spec) ==
    LET declared == DeclaredVolumeClaims(spec.VolumeClaimTemplates, {})
        volumeClaimsMapped == {declared[i].Name : i \in 1 .. Len(declared)}
                                 \cup {"sys-dshm", "sys-namespace-config"}
        remaining == NotMapped(VolumeMountNames(spec.Containers), volumeClaimsMapped)
        volumeClaims ==
            declared \o [i \in 1 .. Len(remaining) |->
                            [Name |-> remaining[i], storage |-> DynamicStorage(remaining[i])]]
        containers ==
            [i \in 1 .. Len(spec.Containers) |->
                [spec.Containers[i] EXCEPT !.VolumeMounts = @ \o <<"sys-dshm">>]]
    IN  [spec |-> [spec EXCEPT !.Containers = containers],
         manifest |-> [kind |-> "StatefulSet", replicas |-> 1, containers |-> containers,
                       volumeClaimTemplates |-> volumeClaims]]

\* A DAG task: When is the set of values of sys-workspace-action its guard
\* accepts, NoGuard for a task without `when`.
WorkspaceActions == {"create", "update", "pause", "delete"}
NoGuard == {}

DAGTask(name, template, dependencies, when, withItems) ==
    [Name |-> name, Template |-> template, Dependencies |-> dependencies,
     When |-> when, WithItems |-> withItems]

\* whether the workflow engine executes a task for a value of the parameter
Executes(task, action) == task.When = NoGuard \/ action \in task.When

Tasks(volumeClaimItems, deletePVCWhen) ==
    <<DAGTask("service", "service-resource", {}, NoGuard, <<>>),
      DAGTask("virtual-service", "virtual-service-resource", {"service"}, NoGuard, <<>>),
      DAGTask("create-stateful-set", "stateful-set-resource", {"virtual-service"},
              {"create", "update"}, <<>>),
      DAGTask("get-stateful-set", "get-stateful-set-resource", {"create-stateful-set"},
              {"create", "update"}, <<>>),
      DAGTask("create-workspace", "workspace-resource", {"get-stateful-set"},
              {"create", "update"}, <<>>),
      DAGTask("delete-stateful-set", "delete-stateful-set-resource", {"virtual-service"},
              {"pause", "delete"}, <<>>),
      DAGTask("delete-workspace", "workspace-resource", {"delete-stateful-set"},
              {"pause", "delete"}, <<>>),
      DAGTask("delete-pvc", "delete-pvc-resource", {"delete-workspace"},
              deletePVCWhen, volumeClaimItems),
      DAGTask("sys-set-phase-running", "sys-update-status", {"create-workspace"},
              {"create", "update"}, <<>>),
      DAGTask("sys-set-phase-paused", "sys-update-status", {"delete-workspace"},
              {"pause"}, <<>>),
      DAGTask("sys-set-phase-terminated", "sys-update-status", {"delete-pvc"},
              {"delete"}, <<>>)>>

\* Variant: the post-execution task also waits for itself.
PostExecutionTask_AfterItself ==
    DAGTask("post-execution", "post-execution",
            {"sys-set-phase-running", "sys-set-phase-paused", "sys-set-phase-terminated",
             "post-execution"},
            NoGuard, <<>>)

PostExecutionTask ==
    DAGTask("post-execution", "post-execution",
            {"sys-set-phase-running", "sys-set-phase-paused", "sys-set-phase-terminated"},
            NoGuard, <<>>)

\* The conjuncts of the success conditions of the resource templates.
ReadyReplicas == "status.readyReplicas > 0"
CurrentRevision == "status.currentRevision == {{inputs.parameters.update-revision}}"

ResourceTemplate(name, successCondition, outputs) ==
    [Name |-> name, SuccessCondition |-> successCondition, Outputs |-> outputs]

statefulSetResource ==
    ResourceTemplate("stateful-set-resource", {ReadyReplicas}, {"update-revision"})

\* Variant: the success condition does not look at the revision.
getStatefulSetResource_ReadyOnly ==
    ResourceTemplate("get-stateful-set-resource", {ReadyReplicas}, {})

getStatefulSetResource ==
    ResourceTemplate("get-stateful-set-resource", {ReadyReplicas, CurrentRevision}, {})

\* the templates of the definition, the DAG template apart
Templates ==
    {ResourceTemplate("service-resource", {}, {}),
     ResourceTemplate("virtual-service-resource", {}, {}),
     statefulSetResource,
     getStatefulSetResource,
     ResourceTemplate("delete-stateful-set-resource", {}, {}),
     ResourceTemplate("workspace-resource", {}, {}),
     ResourceTemplate("delete-pvc-resource", {}, {}),
     ResourceTemplate("sys-update-status", {}, {})}

\* spec.PostExecutionWorkflow.Templates: the entrypoint of the hook
PostExecutionTemplates == {ResourceTemplate(PostExecutionTask.Name, {}, {})}

\* Variant: the post-execution task waits for sys-set-phase-running only.
WorkflowTemplateSpec_HookAfterRunning(spec, documents, tasks) ==
    [kind |-> "WorkflowTemplate", arguments |-> spec.Parameters,
     entrypoint |-> "workspace", resources |-> documents,
     templates |-> IF spec.PostExecutionWorkflow THEN Templates \cup PostExecutionTemplates
                                                 ELSE Templates,
     tasks |-> IF spec.PostExecutionWorkflow
                  THEN Append(tasks, [PostExecutionTask EXCEPT
                                         !.Dependencies = {"sys-set-phase-running"}])
                  ELSE tasks]

WorkflowTemplateSpec(spec, documents, tasks) ==
    [kind |-> "WorkflowTemplate", arguments |-> spec.Parameters,
     entrypoint |-> "workspace", resources |-> documents,
     templates |-> IF spec.PostExecutionWorkflow THEN Templates \cup PostExecutionTemplates
                                                 ELSE Templates,
     tasks |-> IF spec.PostExecutionWorkflow THEN Append(tasks, PostExecutionTask)
                                             ELSE tasks]

\* Variant: the claims are deleted whenever the workload is.
unmarshalWorkflowTemplate_DeleteOnPause(spec, serviceManifest, virtualServiceManifest, statefulSetManifest, workspaceManifest) ==
    WorkflowTemplateSpec(spec,
        <<serviceManifest, virtualServiceManifest, statefulSetManifest, workspaceManifest>>,
        Tasks(NotMapped(VolumeMountNames(spec.Containers), {}), {"pause", "delete"}))

\* Variant: sys-set-phase-terminated waits for delete-workspace only.
unmarshalWorkflowTemplate_TerminatedEarly(spec, serviceManifest, virtualServiceManifest, statefulSetManifest, workspaceManifest) ==
    LET tasks == Tasks(NotMapped(VolumeMountNames(spec.Containers), {}), {"delete"})
    IN  WorkflowTemplateSpec(spec,
            <<serviceManifest, virtualServiceManifest, statefulSetManifest,
              workspaceManifest>>,
            [i \in DOMAIN tasks |->
                IF tasks[i].Name = "sys-set-phase-terminated"
                   THEN [tasks[i] EXCEPT !.Dependencies = {"delete-workspace"}]
                   ELSE tasks[i]])

\* unmarshalWorkflowTemplate: the DAG over the four documents; delete-pvc
\* fans out over the names the containers of the spec mount.
unmarshalWorkflowTemplate(spec, serviceManifest, virtualServiceManifest, statefulSetManifest, workspaceManifest) ==
    LET volumeClaimItems == NotMapped(VolumeMountNames(spec.Containers), {})
    IN  WorkflowTemplateSpec(spec,
            <<serviceManifest, virtualServiceManifest, statefulSetManifest,
              workspaceManifest>>,
            Tasks(volumeClaimItems, {"delete"}))

\* generateWorkspaceTemplateWorkflowTemplate, step by step, inside a create.
\* The manifest check, GetSystemConfig and parseWorkspaceSpec.
CompileParse(p) ==
    /\ pc[p] = "generateWorkspaceTemplateWorkflowTemplate"
    /\ LET o == op[p] IN
       \/ /\ compile.Manifest.raw = ""
          /\ Return(p, Result(o, "InvalidArgument", "", FALSE))
          /\ UNCHANGED compile
       \/ /\ compile.Manifest.raw # ""
          /\ Return(p, Result(o, "Internal", "", FALSE))       \* GetSystemConfig failed
          /\ UNCHANGED compile
       \/ /\ compile.Manifest.raw = "malformed"
          /\ Return(p, Result(o, "InvalidArgument", "", FALSE))
          /\ UNCHANGED compile
       \/ /\ compile.Manifest.raw = "yaml"
          /\ compile' = [compile EXCEPT !.spec = compile.Manifest.spec]
          /\ Goto(p, "generateArguments", o)
          /\ tx' = tx
    /\ UNCHANGED <<list, run, store, collaborators, commits, calls>>

CompileArguments(p) ==
    /\ pc[p] = "generateArguments"
    /\ LET o == op[p]
           generated == generateArguments(compile.spec, compile.config)
       IN  IF generated.err # "nil"
              THEN /\ Return(p, Result(o, generated.err, "", FALSE))
                   /\ UNCHANGED compile
              ELSE /\ compile' = [compile EXCEPT !.spec = generated.spec]
                   /\ Goto(p, "createServiceManifest", o)
                   /\ tx' = tx
    /\ UNCHANGED <<list, run, store, collaborators, commits, calls>>

CompileService(p) ==
    /\ pc[p] = "createServiceManifest"
    /\ compile' = [compile EXCEPT !.serviceManifest = createServiceManifest(compile.spec)]
    /\ Goto(p, "createVirtualServiceManifest", op[p])
    /\ UNCHANGED <<list, run, store, collaborators, tx, commits, calls>>

CompileVirtualService(p) ==
    /\ pc[p] = "createVirtualServiceManifest"
    /\ compile' = [compile EXCEPT !.virtualServiceManifest =
                                      createVirtualServiceManifest(compile.spec)]
    /\ Goto(p, "createStatefulSetManifest", op[p])
    /\ UNCHANGED <<list, run, store, collaborators, tx, commits, calls>>

\* c.ListServices(namespace), then createStatefulSetManifest
CompileStatefulSet(p) ==
    /\ pc[p] = "createStatefulSetManifest"
    /\ \/ /\ Return(p, Result(op[p], "Internal", "", FALSE))   \* ListServices failed
          /\ UNCHANGED compile
       \/ LET created == createStatefulSetManifest(compile.spec) IN
          /\ compile' = [compile EXCEPT !.spec = created.spec,
                                        !.statefulSetManifest = created.manifest]
          /\ Goto(p, "createWorkspaceManifest", op[p])
          /\ tx' = tx
    /\ UNCHANGED <<list, run, store, collaborators, commits, calls>>

CompileWorkspace(p) ==
    /\ pc[p] = "createWorkspaceManifest"
    /\ compile' = [compile EXCEPT !.workspaceManifest = createWorkspaceManifest(compile.spec)]
    /\ Goto(p, "unmarshalWorkflowTemplate", op[p])
    /\ UNCHANGED <<list, run, store, collaborators, tx, commits, calls>>

\* unmarshalWorkflowTemplate; the handler goes on to createWorkspaceTemplate.
CompileWorkflowTemplate(p) ==
    /\ pc[p] = "unmarshalWorkflowTemplate"
    /\ compile' = [compile EXCEPT !.workflowTemplateManifest =
                      unmarshalWorkflowTemplate(compile.spec, compile.serviceManifest,
                                                compile.virtualServiceManifest,
                                                compile.statefulSetManifest,
                                                compile.workspaceManifest)]
    /\ Goto(p, "createWorkflowTemplate", [op[p] EXCEPT !.UID = GenerateUID(op[p].Name)])
    /\ UNCHANGED <<list, run, store, collaborators, tx, commits, calls>>

\* the volumes createStatefulSetManifest provides itself
ReservedVolumeNames == {"sys-dshm", "sys-namespace-config"}

\* generateWorkspaceTemplateWorkflowTemplate as one function of the parsed
\* spec, for a config with node pool options: the steps above, composed.
generateWorkspaceTemplateWorkflowTemplate(spec, config) ==
    LET generated == generateArguments(spec, config).spec
        created == createStatefulSetManifest(generated)
    IN  unmarshalWorkflowTemplate(created.spec, createServiceManifest(generated),
                                  createVirtualServiceManifest(generated),
                                  created.manifest, createWorkspaceManifest(created.spec))

\* ---------------------------------------------------------------- execution
\* The workflow engine executing the DAG of a compiled definition for one
\* value of sys-workspace-action.  A task is pending, running, succeeded or
\* skipped; `dependencies` wait for every named task to succeed or be skipped.
Revisions == {"rev-1", "rev-2"}

\* status of the StatefulSet {{workflow.parameters.sys-uid}}
WorkloadStatuses ==
    [readyReplicas : {0, 1}, currentRevision : Revisions, updateRevision : Revisions]

NoOutput == "none"

NoRun ==
    [tasks |-> <<>>, templates |-> {}, action |-> "none",
     postExecutionWorkflow |-> FALSE,
     status |-> [n \in {} |-> "pending"], items |-> <<>>,
     workload |-> [readyReplicas |-> 0, currentRevision |-> "rev-1",
                   updateRevision |-> "rev-1"],
     outputs |-> NoOutput]

RunTasks == {run.tasks[i] : i \in 1 .. Len(run.tasks)}

TemplateOf(task) == CHOOSE r \in run.templates : r.Name = task.Template

Done(name) == run.status[name] \in {"succeeded", "skipped"}

\* every dependency of a pending task has succeeded or was skipped
DependenciesMet(task) ==
    /\ run.status[task.Name] = "pending"
    /\ \A d \in task.Dependencies : Done(d)

\* Arguments of the get-stateful-set task: update-revision is
\* {{tasks.create-stateful-set.outputs.parameters.update-revision}}
TaskArguments(task) ==
    IF task.Name = "get-stateful-set" THEN run.outputs ELSE NoOutput

\* a success condition evaluated on the resource, for the inputs of the task
Satisfied(conditions, status, updateRevision) ==
    /\ ReadyReplicas \in conditions => status.readyReplicas > 0
    /\ CurrentRevision \in conditions => status.currentRevision = updateRevision

\* A task whose guard holds starts; its fan-out starts with it.
StartTask(name) ==
    /\ \E task \in RunTasks :
          /\ task.Name = name
          /\ DependenciesMet(task)
          /\ Executes(task, run.action)
          /\ run' = [run EXCEPT !.status[name] = "running",
                                !.items = IF task.WithItems # <<>>
                                             THEN [i \in 1 .. Len(task.WithItems) |-> "running"]
                                             ELSE @]
    /\ UNCHANGED <<list, compile, store, collaborators, pc, op, tx, ret, commits, calls>>

\* A task whose guard does not hold is skipped.
SkipTask(name) ==
    /\ \E task \in RunTasks :
          /\ task.Name = name
          /\ DependenciesMet(task)
          /\ ~Executes(task, run.action)
          /\ run' = [run EXCEPT !.status[name] = "skipped"]
    /\ UNCHANGED <<list, compile, store, collaborators, pc, op, tx, ret, commits, calls>>

\* One item of a fan-out completes.
FinishItem(i) ==
    /\ i \in DOMAIN run.items
    /\ run.items[i] = "running"
    /\ run' = [run EXCEPT !.items[i] = "succeeded"]
    /\ UNCHANGED <<list, compile, store, collaborators, pc, op, tx, ret, commits, calls>>

\* A running task succeeds: its items have, and the success condition of its
\* template holds on the resource; the outputs of the template are read.
FinishTask(name) ==
    /\ \E task \in RunTasks :
          /\ task.Name = name
          /\ run.status[name] = "running"
          /\ task.WithItems # <<>> => \A i \in DOMAIN run.items : run.items[i] = "succeeded"
          /\ Satisfied(TemplateOf(task).SuccessCondition, run.workload, TaskArguments(task))
          /\ run' = [run EXCEPT !.status[name] = "succeeded",
                                !.outputs = IF "update-revision" \in TemplateOf(task).Outputs
                                               THEN run.workload.updateRevision
                                               ELSE @]
    /\ UNCHANGED <<list, compile, store, collaborators, pc, op, tx, ret, commits, calls>>

\* The controller of the workload moves its status while a task polls it.
WorkloadChanges ==
    /\ \E task \in RunTasks :
          /\ run.status[task.Name] = "running"
          /\ TemplateOf(task).SuccessCondition # {}
    /\ \E status \in WorkloadStatuses \ {run.workload} :
          run' = [run EXCEPT !.workload = status]
    /\ UNCHANGED <<list, compile, store, collaborators, pc, op, tx, ret, commits, calls>>

\* ---------------------------------------------------------------- namespaces
\* NamespaceServer.ListNamespaces: the namespaces of the cluster whose name
\* contains the query, cut into pages.  Page and PageSize are int32.
MaxInt32 == 2147483647
MinInt32 == -2147483647 - 1

MaxNamespaces == 3

\* names as sequences of characters
NamespaceNames == {<<"a">>, <<"b">>, <<"a", "b">>, <<"b", "a">>}
Queries == {<<>>, <<"a">>, <<"b">>, <<"a", "b">>, <<"c">>}

\* the namespaces of the cluster: names are unique
ClusterNamespaces ==
    {ns \in SeqsUpTo(NamespaceNames, MaxNamespaces) :
        \A i, j \in DOMAIN ns : i # j => ns[i] # ns[j]}

PageValues == {MinInt32, -1, 0, 1, 2, 3, MaxInt32}
PageSizeValues == {MinInt32, -1, 0, 1, 2, 15, MaxInt32}

ListNamespacesRequests == [Page : PageValues, PageSize : PageSizeValues, Query : Queries]

NoResponse == [kind |-> "nil"]
Panic == [kind |-> "panic"]

NoList ==
    [pc |-> "idle", req |-> [Page |-> 0, PageSize |-> 0, Query |-> <<>>],
     request |-> [Page |-> 0, PageSize |-> 0, Query |-> <<>>],
     cluster |-> <<>>, apiNamespaces |-> <<>>, pages |-> 0, start |-> 0, end |-> 0,
     response |-> NoResponse]

\* strings.Contains
Contains(s, substr) ==
    \E k \in 0 .. Len(s) :
       /\ k + Len(substr) <= Len(s)
       /\ \A i \in 1 .. Len(substr) : s[k + i] = substr[i]

\* the loop of ListNamespaces: the namespaces that match the query, in order
RECURSIVE Matching(_, _)
Matching(namespaces, query) ==
    IF namespaces = <<>> THEN <<>>
    ELSE LET rest == Matching(Tail(namespaces), query)
         IN  IF query = <<>> \/ (query # <<>> /\ Contains(Head(namespaces), query))
                THEN <<Head(namespaces)>> \o rest
                ELSE rest

\* int32 addition: the sum wraps around
Add32(a, b) ==
    IF b > 0 /\ a > MaxInt32 - b THEN ((a + (b - MaxInt32 - 1)) - MaxInt32) - 1
    ELSE IF b < 0 /\ a < MinInt32 - b THEN ((a + (b + MaxInt32 + 1)) + MaxInt32) + 1
    ELSE a + b

\* int32(math.Ceil(float64(total) / float64(pageSize))), for pageSize > 0
PageCount(total, pageSize) ==
    IF total % pageSize = 0 THEN total \div pageSize ELSE (total \div pageSize) + 1

\* Variant: only a negative page is replaced by 1.
ClampPage_ZeroKept(page, pages) ==
    LET capped == IF page > pages THEN pages ELSE page
    IN  IF capped < 0 THEN 1 ELSE capped

\* the two clamps of req.Page
ClampPage(page, pages) ==
    LET capped == IF page > pages THEN pages ELSE page
    IN  IF capped <= 0 THEN 1 ELSE capped

\* apiNamespaces[start:end]: out of range bounds panic
Slice(s, start, end) ==
    IF 0 <= start /\ start <= end /\ end <= Len(s)
       THEN [kind |-> "slice", value |-> SubSeq(s, start + 1, end)]
       ELSE Panic

\* auth.IsAuthorized: an error or a refusal returns nil
ListNamespacesAuthorize ==
    /\ list.pc = "IsAuthorized"
    /\ \/ list' = [list EXCEPT !.pc = "return"]
       \/ list' = [list EXCEPT !.pc = "ListNamespaces"]
    /\ UNCHANGED <<compile, run, store, collaborators, pc, op, tx, ret, commits, calls>>

\* the default of PageSize, client.ListNamespaces and the filter on the query
ListNamespacesFilter ==
    /\ list.pc = "ListNamespaces"
    /\ LET pageSize == IF list.req.PageSize <= 0 THEN 15 ELSE list.req.PageSize IN
       \/ list' = [list EXCEPT !.req.PageSize = pageSize, !.pc = "return"]
       \/ list' = [list EXCEPT !.req.PageSize = pageSize,
                               !.apiNamespaces = Matching(list.cluster, list.req.Query),
                               !.pc = "paginate"]
    /\ UNCHANGED <<compile, run, store, collaborators, pc, op, tx, ret, commits, calls>>

\* pages, the clamps of Page, the bounds of the slice and the response.
\* page - 1 is at least 0 and below pages, so the product stays below total.
ListNamespacesPaginate ==
    /\ list.pc = "paginate"
    /\ LET total == Len(list.apiNamespaces)
           pages == PageCount(total, list.req.PageSize)
           page == ClampPage(list.req.Page, pages)
           start == (page - 1) * list.req.PageSize
           sum == Add32(start, list.req.PageSize)
           end == IF sum >= total THEN total ELSE sum
           namespaces == Slice(list.apiNamespaces, start, end)
       IN  list' = [list EXCEPT
                       !.req.Page = page, !.pages = pages, !.start = start, !.end = end,
                       !.pc = "return",
                       !.response =
                           IF namespaces = Panic
                              THEN Panic
                              ELSE [kind |-> "ListNamespacesResponse",
                                    Count |-> end - start,
                                    Namespaces |-> namespaces.value,
                                    Page |-> page, Pages |-> pages,
                                    TotalCount |-> total]]
    /\ UNCHANGED <<compile, run, store, collaborators, pc, op, tx, ret, commits, calls>>

\* ---------------------------------------------------------------- specifications
Init ==
    /\ workspace_templates = {}
    /\ workspace_template_versions = {}
    /\ workflow_templates = {}
    /\ workflow_template_versions = {}
    /\ workspaces = {}
    /\ pc = [p \in Procs |-> "idle"]
    /\ op = [p \in Procs |-> NoOp]
    /\ tx = [p \in Procs |-> NoTx]
    /\ ret = [p \in Procs |-> NoRet]
    /\ commits = <<>>
    /\ calls = 0
    /\ compile = NoCompile
    /\ run = NoRun
    /\ list = NoList

\* The steps inside a handler.
Step(p) ==
    \/ CreateCheckExisting(p)
    \/ CreateRegister(p)
    \/ CreateInsertTemplate(p)
    \/ CreateInsertVersion(p)
    \/ CreateCommit(p)
    \/ CreateCleanUp(p)
    \/ UpdateGet(p)
    \/ UpdateCreateVersion(p)
    \/ UpdateMarkOutdated(p)
    \/ UpdateLockVersionRows(p)
    \/ UpdateInsertVersion(p)
    \/ UpdateTemplateRow(p)
    \/ UpdateCommit(p)
    \/ ArchiveGet(p)
    \/ ArchiveList(p)
    \/ ArchiveInstances(p)
    \/ ArchiveTemplateRow(p)
    \/ ArchiveDefinition(p)

\* A call of the API.
Call(p) ==
    \/ CreateWorkspaceTemplate(p)
    \/ UpdateWorkspaceTemplate(p)
    \/ ArchiveWorkspaceTemplate(p)

\* an instance created while no call is under way
CreateWorkspaceBetweenCalls == AllIdle /\ CreateWorkspace

\* Calls executed one at a time: one caller, whose next call starts when its
\* last one has returned.
Caller == CHOOSE p \in Procs : TRUE

Next ==
    \/ Call(Caller)
    \/ Step(Caller)
    \/ CreateWorkspaceBetweenCalls

Spec == Init /\ [][Next]_vars

\* Calls dispatched in parallel by the request layer, on a store that already
\* holds one template: the state after one successful
\* CreateWorkspaceTemplate("ns1", "ml-1") of the first submission.
InitConcurrent ==
    /\ workspace_templates =
          {[id |-> 1, uid |-> "ml-1", name |-> "ml-1", description |-> "d1",
            namespace |-> "ns1", workflow_template_id |-> 1, labels |-> "l1",
            is_archived |-> FALSE]}
    /\ workspace_template_versions =
          {[id |-> 1, version |-> 1, is_latest |-> TRUE, manifest |-> "m1",
            workspace_template_id |-> 1, labels |-> "l1"]}
    /\ workflow_templates =
          {[id |-> 1, uid |-> "ml-1", namespace |-> "ns1", is_archived |-> FALSE]}
    /\ workflow_template_versions =
          {[workflow_template_id |-> 1, version |-> 1, is_latest |-> TRUE,
            manifest |-> "m1"]}
    /\ workspaces = {}
    /\ pc = [p \in Procs |-> "idle"]
    /\ op = [p \in Procs |-> NoOp]
    /\ tx = [p \in Procs |-> NoTx]
    /\ ret = [p \in Procs |-> NoRet]
    /\ commits = <<[id |-> 1, Manifest |-> "m1"]>>
    /\ calls = 1
    /\ compile = NoCompile
    /\ run = NoRun
    /\ list = NoList

NextConcurrent ==
    \/ \E p \in Procs : Call(p)
    \/ \E p \in Procs : Step(p)
    \/ CreateWorkspace

SpecConcurrent == InitConcurrent /\ [][NextConcurrent]_vars

\* One CreateWorkspaceTemplate("ns1", "ml-1") on an empty store, from the
\* point where the existence check has passed, for every manifest and config.
InitCompile ==
    /\ workspace_templates = {}
    /\ workspace_template_versions = {}
    /\ workflow_templates = {}
    /\ workflow_template_versions = {}
    /\ workspaces = {}
    /\ pc = [p \in Procs |-> IF p = Caller
                                THEN "generateWorkspaceTemplateWorkflowTemplate"
                                ELSE "idle"]
    /\ op = [p \in Procs |->
                IF p = Caller
                   THEN [NoOp EXCEPT !.kind = "create", !.before = <<{}, {}>>,
                                     !.Namespace = "ns1", !.Name = "ml-1",
                                     !.Manifest = "m1", !.Labels = "l1",
                                     !.Description = "d1"]
                   ELSE NoOp]
    /\ tx = [p \in Procs |-> NoTx]
    /\ ret = [p \in Procs |-> NoRet]
    /\ commits = <<>>
    /\ calls = 1
    /\ \E manifest \in ManifestTexts, config \in SystemConfigs :
          compile = [NoCompile EXCEPT !.Manifest = manifest, !.config = config]
    /\ run = NoRun
    /\ list = NoList

NextCompile ==
    \/ CompileParse(Caller)
    \/ CompileArguments(Caller)
    \/ CompileService(Caller)
    \/ CompileVirtualService(Caller)
    \/ CompileStatefulSet(Caller)
    \/ CompileWorkspace(Caller)
    \/ CompileWorkflowTemplate(Caller)
    \/ CreateRegister(Caller)
    \/ CreateInsertTemplate(Caller)
    \/ CreateInsertVersion(Caller)
    \/ CreateCommit(Caller)
    \/ CreateCleanUp(Caller)

SpecCompile == InitCompile /\ [][NextCompile]_vars

\* One execution of a compiled definition: for every spec whose containers
\* mount volumes of the user only, all of them synthesized, every value of
\* sys-workspace-action and every status the workload is found in.
ExecutedSpecs ==
    {spec \in WorkspaceSpecs :
        /\ spec.VolumeClaimTemplates = <<>>
        /\ spec.Parameters = <<>>
        /\ \A i \in DOMAIN spec.Containers :
              \A j \in DOMAIN spec.Containers[i].VolumeMounts :
                 spec.Containers[i].VolumeMounts[j] \notin ReservedVolumeNames}

InitExecute ==
    /\ workspace_templates = {}
    /\ workspace_template_versions = {}
    /\ workflow_templates = {}
    /\ workflow_template_versions = {}
    /\ workspaces = {}
    /\ pc = [p \in Procs |-> "idle"]
    /\ op = [p \in Procs |-> NoOp]
    /\ tx = [p \in Procs |-> NoTx]
    /\ ret = [p \in Procs |-> NoRet]
    /\ commits = <<>>
    /\ calls = 0
    /\ compile = NoCompile
    /\ list = NoList
    /\ \E spec \in ExecutedSpecs, action \in WorkspaceActions, workload \in WorkloadStatuses :
          LET definition == generateWorkspaceTemplateWorkflowTemplate(
                                spec, [NodePoolOptions |-> <<"pool-a", "pool-b">>])
              names == {definition.tasks[i].Name : i \in 1 .. Len(definition.tasks)}
          IN  run = [NoRun EXCEPT !.tasks = definition.tasks,
                                  !.templates = definition.templates,
                                  !.action = action,
                                  !.postExecutionWorkflow = spec.PostExecutionWorkflow,
                                  !.status = [n \in names |-> "pending"],
                                  !.workload = workload]

NextExecute ==
    \/ \E name \in DOMAIN run.status : StartTask(name)
    \/ \E name \in DOMAIN run.status : SkipTask(name)
    \/ \E i \in DOMAIN run.items : FinishItem(i)
    \/ \E name \in DOMAIN run.status : FinishTask(name)
    \/ WorkloadChanges

SpecExecute == InitExecute /\ [][NextExecute]_vars

\* The names a task of a compiled definition can have.
TaskNames ==
    {Tasks(<<>>, {"delete"})[i].Name : i \in 1 .. Len(Tasks(<<>>, {"delete"}))}
        \cup {PostExecutionTask.Name}

\* The engine starts or skips every task whose dependencies are met.
SpecExecuteFair ==
    /\ InitExecute
    /\ [][NextExecute]_vars
    /\ WF_vars(\E name \in DOMAIN run.status : StartTask(name) \/ SkipTask(name))

\* One call of ListNamespaces, for every request and every cluster.
InitList ==
    /\ workspace_templates = {}
    /\ workspace_template_versions = {}
    /\ workflow_templates = {}
    /\ workflow_template_versions = {}
    /\ workspaces = {}
    /\ pc = [p \in Procs |-> "idle"]
    /\ op = [p \in Procs |-> NoOp]
    /\ tx = [p \in Procs |-> NoTx]
    /\ ret = [p \in Procs |-> NoRet]
    /\ commits = <<>>
    /\ calls = 0
    /\ compile = NoCompile
    /\ run = NoRun
    /\ \E req \in ListNamespacesRequests, cluster \in ClusterNamespaces :
          list = [NoList EXCEPT !.pc = "IsAuthorized", !.req = req, !.request = req,
                                !.cluster = cluster]

NextList ==
    \/ ListNamespacesAuthorize
    \/ ListNamespacesFilter
    \/ ListNamespacesPaginate

SpecList == InitList /\ [][NextList]_vars

\* ---------------------------------------------------------------- properties
VersionsOf(workspaceTemplateID) ==
    {r \in workspace_template_versions : r.workspace_template_id = workspaceTemplateID}

VersionRow(id) == CHOOSE r \in workspace_template_versions : r.id = id

\* the commits of one template, oldest first
CommitsOf(workspaceTemplateID) ==
    SelectSeq(commits, LAMBDA c : VersionRow(c.id).workspace_template_id = workspaceTemplateID)

\* a handler of the given kind returns in this step
Returns(p, kind) ==
    /\ op[p].kind = kind
    /\ pc[p] # "idle"
    /\ pc'[p] = "idle"

Failed(p) == ret'[p].err # "nil"

\* C1: with calls executed one at a time, every template that has version rows
\* has exactly one version row flagged is_latest, and that row is the one the
\* most recent committed create or update of the template inserted.
C1_SingleLatest ==
    \A t \in workspace_templates :
        LET rows == VersionsOf(t.id)
            log == CommitsOf(t.id)
        IN  rows # {} =>
              /\ Cardinality({r \in rows : r.is_latest}) = 1
              /\ log # <<>>
              /\ VersionRow(log[Len(log)].id).is_latest

\* a template updated twice: three version rows
C1_Witness ==
    \E t \in workspace_templates : Cardinality(VersionsOf(t.id)) >= 3

\* C2: in a create, once the definition is registered (step 4), every failure
\* of a later persistence step (Begin, the two inserts, Commit) attempts the
\* archival of the registered definition before the call returns, and when
\* that archival succeeds the registered definition is not active any more.
C2_CompensationAlwaysAttempted ==
    [][\A p \in Procs :
          (Returns(p, "create") /\ Failed(p) /\ op[p].WorkflowTemplateID # 0) =>
              /\ ret'[p].cleanup \in {"ok", "failed"}
              /\ ret'[p].cleanup = "ok" =>
                    \A d \in workflow_templates' :
                        d.id = op[p].WorkflowTemplateID => d.is_archived]_vars

\* C3: a create that returns an error leaves both tables as they were when it
\* was called, and no template row is ever committed without a version row.
C3_FailedCreateLeavesStore ==
    /\ [](\A t \in workspace_templates : VersionsOf(t.id) # {})
    /\ [][\A p \in Procs :
            (Returns(p, "create") /\ Failed(p)) => store' = op[p].before]_vars

\* a create whose Commit failed (after both inserts) has returned its error
C3_Witness ==
    \E p \in Procs : /\ ret[p].kind = "create"
                     /\ ret[p].err = "Internal"
                     /\ ret[p].at = "cleanUp"

\* the caller's handler takes a step from the given position
StepsAt(p, label) == pc[p] = label /\ pc'[p] # label

ActiveTemplates(namespace, uid) ==
    {t \in workspace_templates : t.namespace = namespace /\ t.uid = uid /\ ~t.is_archived}

\* C4: a create called while an active template of the same name exists in
\* the namespace fails with AlreadyExists (unless the lookup query itself
\* fails), registers nothing with the collaborator and inserts no row.
C4_AlreadyExists ==
    [][\A p \in Procs :
          (/\ StepsAt(p, "getWorkspaceTemplateByName")
           /\ \E t \in workspace_templates :
                 /\ t.namespace = op[p].Namespace
                 /\ t.name = op[p].Name
                 /\ ~t.is_archived) =>
              /\ pc'[p] = "idle"
              /\ ret'[p].err \in {"AlreadyExists", "Internal"}
              /\ UNCHANGED <<store, collaborators>>
              /\ tx'[p] = NoTx]_vars

C4_Witness ==
    \E p \in Procs : ret[p].kind = "create" /\ ret[p].err = "AlreadyExists"

\* C5: the version numbers of a template's version rows increase strictly in
\* commit order starting at 1, only the newest row is flagged latest, and
\* GetWorkspaceTemplate with each explicit version number returns the row of
\* that version with the manifest that was submitted for it.
C5_VersionsInCommitOrder ==
    \A t \in workspace_templates :
        LET log == CommitsOf(t.id)
            row(i) == VersionRow(log[i].id)
        IN  /\ VersionsOf(t.id) = {row(i) : i \in 1 .. Len(log)}
            /\ log # <<>> => row(1).version = 1
            /\ \A i \in 1 .. Len(log) - 1 : row(i).version < row(i + 1).version
            /\ \A i \in 1 .. Len(log) : row(i).is_latest <=> i = Len(log)
            /\ ~t.is_archived =>
                 \A i \in 1 .. Len(log) :
                    LET got == GetWorkspaceTemplate(t.namespace, t.uid, row(i).version)
                    IN  /\ got # {}
                        /\ \A j \in got : /\ j.wtv.version = row(i).version
                                          /\ j.wtv.manifest = log[i].Manifest

\* create then one update with another manifest: versions 1 and 2, 2 is latest
C5_Witness ==
    \E t \in workspace_templates :
        /\ ~t.is_archived
        /\ {<<r.version, r.is_latest>> : r \in VersionsOf(t.id)} = {<<1, FALSE>>, <<2, TRUE>>}
        /\ Cardinality({r.manifest : r \in VersionsOf(t.id)}) = 2

\* whether (namespace, uid) has an active template with a row at the version
TemplateExistsAt(namespace, uid, version) ==
    \E t \in ActiveTemplates(namespace, uid) :
        \E v \in VersionsOf(t.id) :
            IF version = 0 THEN v.is_latest ELSE v.version = version

\* C6: an update of a template that has no row at the requested version (or no
\* latest row for version 0, or is archived) fails with NotFound (unless the
\* lookup query itself fails); no version is appended at the collaborator and
\* no row of the store changes.  NotFound is returned in no other case.
C6_UpdateNotFound ==
    [][\A p \in Procs :
          /\ (/\ StepsAt(p, "GetWorkspaceTemplate")
              /\ ~TemplateExistsAt(op[p].Namespace, op[p].UID, op[p].Version)) =>
                 /\ pc'[p] = "idle"
                 /\ ret'[p].err \in {"NotFound", "Internal"}
                 /\ UNCHANGED <<store, collaborators>>
          /\ (Returns(p, "update") /\ ret'[p].err = "NotFound") =>
                 /\ ~TemplateExistsAt(op[p].Namespace, op[p].UID, op[p].Version)
                 /\ store' = op[p].before
                 /\ UNCHANGED collaborators]_vars

\* an update of an archived template was answered NotFound
C6_Witness ==
    \E p \in Procs :
        /\ ret[p].kind = "update"
        /\ ret[p].err = "NotFound"
        /\ \E t \in workspace_templates : t.is_archived

\* C7: an update that returns an error, whichever statement of its
\* transaction failed, leaves both tables as they were when it was called.
C7_FailedUpdateLeavesStore ==
    [][\A p \in Procs :
          (Returns(p, "update") /\ Failed(p)) => store' = op[p].before]_vars

\* an update whose Commit failed, after the collaborator-side version had
\* been created, has returned its error
C7_Witness ==
    \E p \in Procs :
        /\ ret[p].kind = "update"
        /\ ret[p].err = "Internal"
        /\ ret[p].at = "commitUpdate"
        /\ \E t \in workspace_templates :
           \E fv \in workflow_template_versions :
              /\ fv.workflow_template_id = t.workflow_template_id
              /\ \A v \in VersionsOf(t.id) : v.version # fv.version

\* C8: also when updates of the same template run concurrently, at most one
\* version row of a template is flagged is_latest.
C8_AtMostOneLatest ==
    \A t \in workspace_templates :
        Cardinality({r \in VersionsOf(t.id) : r.is_latest}) <= 1

\* C9: archiving a template that is already archived is a no-op: it returns
\* archived = false without error (unless the lookup query itself fails) and
\* changes nothing.
C9_ArchiveIdempotent ==
    [][\A p \in Procs :
          (/\ StepsAt(p, "getLatest")
           /\ ActiveTemplates(op[p].Namespace, op[p].UID) = {}
           /\ \E t \in workspace_templates :
                 t.namespace = op[p].Namespace /\ t.uid = op[p].UID /\ t.is_archived) =>
              /\ pc'[p] = "idle"
              /\ ret'[p].err \in {"nil", "Unknown"}
              /\ ret'[p].archived = FALSE
              /\ UNCHANGED <<store, collaborators>>]_vars

\* C10: an archive marks the template row archived only when every instance
\* it enumerated is archived, and archives the definition only when the
\* template row is marked archived.
C10_ArchiveOrder ==
    [][\A p \in Procs :
          /\ (/\ StepsAt(p, "archiveWorkspaceTemplateDB")
              /\ workspace_templates' # workspace_templates) =>
                 \A w \in workspaces : w.uid \in op[p].enumerated => w.is_archived
          /\ (/\ op[p].kind = "archive"
              /\ StepsAt(p, "ArchiveWorkflowTemplate")
              /\ workflow_templates' # workflow_templates) =>
                 ActiveTemplates(op[p].Namespace, op[p].UID) = {}]_vars

\* an archive that enumerated two instances has marked the template archived
C10_Witness ==
    \E p \in Procs :
        /\ pc[p] = "ArchiveWorkflowTemplate"
        /\ Cardinality(op[p].enumerated) >= 2
        /\ \E t \in workspace_templates : t.uid = op[p].UID /\ t.is_archived

\* the live instances created from any version of a template
LiveInstancesOf(rows, workspaceTemplateID) ==
    {w \in rows : w.workspace_template_id = workspaceTemplateID /\ ~w.is_archived}

\* C11: when an archive succeeds, no live instance created from any version
\* of the archived template remains.
C11_NoLiveInstanceAfterArchive ==
    [][\A p \in Procs :
          (Returns(p, "archive") /\ ret'[p].err = "nil") =>
              LiveInstancesOf(workspaces', op[p].ID) = {}]_vars

\* the instances of the enumeration the loop has not gone past yet
Remaining(o) == {o.wsList[i] : i \in 1 .. Len(o.wsList)}

\* C12: an archive that leaves its instance loop leaves it with an Unknown
\* error, in the step in which archiving one instance failed: no instance is
\* touched by that step, the rest of the enumeration stays live, the template
\* row stays non-archived and the orchestrator-side definition stays
\* non-archived.
C12_InstanceFailureAborts ==
    [][\A p \in Procs :
          (pc[p] = "ArchiveWorkspace" /\ Returns(p, "archive")) =>
              /\ ret'[p].err = "Unknown"
              /\ ~ret'[p].archived
              /\ \A w \in workspaces' : w.uid \in Remaining(op[p]) => ~w.is_archived
              /\ \A t \in workspace_templates' :
                    t.id = op[p].ID =>
                        /\ ~t.is_archived
                        /\ \A d \in workflow_templates' :
                              d.id = t.workflow_template_id => ~d.is_archived]_vars

\* an archive has failed in its instance loop after archiving one instance of
\* the template and before archiving another one
C12_Witness ==
    \E p \in Procs :
        /\ ret[p].kind = "archive"
        /\ ret[p].at = "ArchiveWorkspace"
        /\ ret[p].err = "Unknown"
        /\ \E t \in workspace_templates :
              /\ ~t.is_archived
              /\ \E w1, w2 \in workspaces :
                    /\ w1.workspace_template_id = t.id
                    /\ w2.workspace_template_id = t.id
                    /\ w1.is_archived
                    /\ ~w2.is_archived

\* C13: an archive returns archived = true exactly when its own
\* archiveWorkspaceTemplateDB statement changed the template row from
\* non-archived to archived; so of two overlapping archives of one template at
\* most one returns true.
C13_ArchivedIffChanged ==
    [][\A p \in Procs :
          Returns(p, "archive") => (ret'[p].archived <=> op[p].archived)]_vars

\* the version rows a read of (namespace, uid, version) is to return: those of
\* the active template, with that version number, or flagged latest for 0
RowsAt(namespace, uid, version) ==
    {<<t, v>> : t \in ActiveTemplates(namespace, uid), v \in workspace_template_versions} \cap
    {tv \in workspace_templates \X workspace_template_versions :
        /\ tv[2].workspace_template_id = tv[1].id
        /\ IF version = 0 THEN tv[2].is_latest ELSE tv[2].version = version}

\* the steps of the handlers that consist of a GetWorkspaceTemplate
Reads(p) == pc[p] \in {"GetWorkspaceTemplate", "getLatest"} /\ pc'[p] # pc[p]

\* C14: GetWorkspaceTemplate(namespace, uid, v), wherever a handler runs it,
\* returns the version row with version number v of the active template, or
\* its row flagged latest for v = 0, and nothing when there is no such row or
\* the template is archived; the step that runs it leaves every table as it
\* was, and goes on only with a template it was to return.
C14_GetReturnsExactVersion ==
    [][\A p \in Procs :
          Reads(p) =>
              LET o == op[p]
                  rows == RowsAt(o.Namespace, o.UID, o.Version)
              IN  /\ {<<j.wt, j.wtv>> :
                         j \in GetWorkspaceTemplate(o.Namespace, o.UID, o.Version)} = rows
                  /\ UNCHANGED <<store, collaborators>>
                  /\ pc'[p] # "idle" => \E tv \in rows : op'[p].ID = tv[1].id]_vars

\* an update has read version 1 of a template whose latest version is newer
C14_Witness ==
    \E p \in Procs :
        /\ pc[p] = "CreateWorkflowTemplateVersion"
        /\ op[p].Version = 1
        /\ \E j \in GetWorkspaceTemplate(op[p].Namespace, op[p].Name, op[p].Version) :
              /\ j.wt.id = op[p].ID
              /\ ~j.wtv.is_latest

\* ------------------------------------------------------- compilation properties
Occurrences(s, x) == Cardinality({i \in 1 .. Len(s) : s[i] = x})

NamesOf(s) == [i \in 1 .. Len(s) |-> s[i].Name]

\* the volume names the containers of a list mount
Mounted(containers) ==
    {VolumeMountNames(containers)[i] : i \in 1 .. Len(VolumeMountNames(containers))}

\* the spec as the user wrote it
UserSpec == compile.Manifest.spec

\* generateArguments has just run
ArgumentsGenerated == pc[Caller] = "createServiceManifest"

\* C15: after generateArguments, the parameters hold sys-<name>-volume-size
\* exactly once for every volume name that a container mounts, that no claim
\* template with a storage request covers and that is not sys-dshm or
\* sys-namespace-config, and not at all for any other name.
C15_OneSizeParameterPerVolume ==
    ArgumentsGenerated =>
        \A name \in VolumeNames :
            Occurrences(NamesOf(compile.spec.Parameters), VolumeSizeParameter(name).Name)
                = IF /\ name \in Mounted(UserSpec.Containers)
                     /\ name \notin volumeStorageQuantityIsSet(UserSpec)
                     /\ name \notin ReservedVolumeNames
                     THEN 1 ELSE 0

\* the whole pipeline has run
Compiled == compile.workflowTemplateManifest # NoDocument

TaskNamed(name) ==
    CHOOSE t \in {compile.workflowTemplateManifest.tasks[i] :
                     i \in 1 .. Len(compile.workflowTemplateManifest.tasks)} :
        t.Name = name

\* C16: in the compiled graph the delete-pvc fan-out has exactly one item for
\* every volume name that a container of the user's spec mounts and that has a
\* claim (declared or synthesized) in the stateful set, and no other item.
C16_OneDeleteTaskPerMountedClaim ==
    Compiled =>
        \A name \in VolumeNames :
            Occurrences(TaskNamed("delete-pvc").WithItems, name)
                = IF /\ name \in Mounted(UserSpec.Containers)
                     /\ Occurrences(NamesOf(compile.statefulSetManifest.volumeClaimTemplates),
                                    name) > 0
                     THEN 1 ELSE 0

StatefulSetCreated == compile.statefulSetManifest # NoDocument

\* C17: in the stateful set, every volume name a container mounts, other than
\* sys-dshm and sys-namespace-config, has exactly one claim template, and
\* those two names have none unless the user declared one.
C17_OneClaimPerMountedVolume ==
    StatefulSetCreated =>
        LET claims == NamesOf(compile.statefulSetManifest.volumeClaimTemplates) IN
        /\ \A name \in Mounted(compile.statefulSetManifest.containers)
                          \ ReservedVolumeNames :
              Occurrences(claims, name) = 1
        /\ \A name \in ReservedVolumeNames :
              Occurrences(claims, name)
                  = IF Occurrences(NamesOf(UserSpec.VolumeClaimTemplates), name) > 0
                       THEN 1 ELSE 0

\* a stateful set built for two containers, one mounting an undeclared volume
\* and one mounting a system volume
C17_Witness ==
    /\ StatefulSetCreated
    /\ UserSpec.VolumeClaimTemplates = <<>>
    /\ Mounted(UserSpec.Containers) \cap ReservedVolumeNames # {}
    /\ Mounted(UserSpec.Containers) \ ReservedVolumeNames # {}
    /\ Len(compile.statefulSetManifest.volumeClaimTemplates) = 1

\* C18: in the parameters generateArguments leaves, every system parameter,
\* volume size parameters included, comes before every parameter of the user,
\* and those keep their order: the user's parameters are the tail.
C18_SystemParametersFirst ==
    ArgumentsGenerated =>
        LET final == compile.spec.Parameters
            user == UserSpec.Parameters
        IN  /\ Len(final) >= Len(user)
            /\ SubSeq(final, Len(final) - Len(user) + 1, Len(final)) = user

Documents ==
    <<compile.serviceManifest, compile.virtualServiceManifest,
      compile.statefulSetManifest, compile.workspaceManifest>>

\* C19: a create under a SystemConfig without node pool options assembles
\* none of the four documents, registers nothing with the workflow-template
\* collaborator and writes no row; the call that gets as far as
\* generateArguments returns from it with the InvalidConfiguration error.
C19_NoNodePoolOptions ==
    /\ [](compile.config.NodePoolOptions = <<>> =>
            /\ \A i \in 1 .. Len(Documents) : Documents[i] = NoDocument
            /\ compile.workflowTemplateManifest = NoDocument
            /\ workflow_templates = {} /\ workflow_template_versions = {}
            /\ workspace_templates = {} /\ workspace_template_versions = {}
            /\ \A p \in Procs : tx[p] = NoTx)
    /\ [][\A p \in Procs :
             (pc[p] = "generateArguments" /\ compile.config.NodePoolOptions = <<>>) =>
                 /\ pc'[p] = "idle"
                 /\ ret'[p].err = InvalidConfiguration]_vars

\* a create of a spec with a container has failed in generateArguments for
\* want of node pool options
C19_Witness ==
    /\ compile.config.NodePoolOptions = <<>>
    /\ Len(UserSpec.Containers) > 0
    /\ pc[Caller] = "idle"
    /\ ret[Caller].kind = "create"
    /\ ret[Caller].at = "generateArguments"
    /\ ret[Caller].err = InvalidConfiguration

\* the tasks of the graph, the spliced-in post-execution task apart
SystemTasks ==
    {t \in {compile.workflowTemplateManifest.tasks[i] :
               i \in 1 .. Len(compile.workflowTemplateManifest.tasks)} :
        t.Name # PostExecutionTask.Name}

\* the tasks that are to execute for a value of sys-workspace-action
TasksFor(action) ==
    {"service", "virtual-service"}
        \cup (IF action \in {"create", "update"}
                 THEN {"create-stateful-set", "get-stateful-set", "create-workspace",
                       "sys-set-phase-running"}
                 ELSE {})
        \cup (IF action \in {"pause", "delete"}
                 THEN {"delete-stateful-set", "delete-workspace"} ELSE {})
        \cup (IF action = "delete" THEN {"delete-pvc", "sys-set-phase-terminated"} ELSE {})
        \cup (IF action = "pause" THEN {"sys-set-phase-paused"} ELSE {})

\* C20: for every value of sys-workspace-action, the tasks of the compiled
\* graph whose guard lets them execute are: service and virtual-service
\* always; create-stateful-set, get-stateful-set, create-workspace and
\* sys-set-phase-running for create and update; delete-stateful-set and
\* delete-workspace for pause and delete; delete-pvc and
\* sys-set-phase-terminated for delete; sys-set-phase-paused for pause.
C20_GuardsPerAction ==
    Compiled =>
        /\ Cardinality(SystemTasks) = Cardinality({t.Name : t \in SystemTasks})
        /\ \A action \in WorkspaceActions :
              {t.Name : t \in {s \in SystemTasks : Executes(s, action)}} = TasksFor(action)

\* a graph compiled for a spec whose containers mount two volumes
C20_Witness ==
    /\ Compiled
    /\ Cardinality(Mounted(UserSpec.Containers)) = 2
    /\ TaskNamed("delete-pvc").WithItems # <<>>
    /\ ~Executes(TaskNamed("delete-pvc"), "pause")

\* C24: the system parameters generateArguments puts in front are, in this
\* order: sys-host, sys-node-pool-label, sys-node-pool, then sys-name,
\* sys-resource-action, sys-workspace-action and sys-uid.
C24_SystemParameterOrder ==
    ArgumentsGenerated =>
        /\ Len(compile.spec.Parameters) >= 7
        /\ SubSeq(NamesOf(compile.spec.Parameters), 1, 7)
              = <<"sys-host", "sys-node-pool-label", "sys-node-pool", "sys-name",
                  "sys-resource-action", "sys-workspace-action", "sys-uid">>

\* the templates of a namespace that carry a name, archived ones included
TemplatesNamed(namespace, name) ==
    {t \in workspace_templates : t.namespace = namespace /\ t.name = name}

\* C25: a create whose name matches a template of the namespace fails, and
\* its AlreadyExists message is the plain "already exists" when a matching
\* template is active and the "archived ... already exists" one when the
\* matching template is archived.
C25_AlreadyExistsMessage ==
    [][\A p \in Procs :
          (StepsAt(p, "getWorkspaceTemplateByName")
              /\ TemplatesNamed(op[p].Namespace, op[p].Name) # {}) =>
                 /\ pc'[p] = "idle"
                 /\ ret'[p].err = "AlreadyExists" =>
                       ret'[p].message =
                           IF \E t \in TemplatesNamed(op[p].Namespace, op[p].Name) :
                                 ~t.is_archived
                              THEN "already exists"
                              ELSE "archived already exists"]_vars

\* C26: also when creates of the same name run concurrently, a namespace
\* never holds two active templates of one name.
C26_OneActiveTemplatePerName ==
    \A namespace \in Namespaces, name \in Names :
        Cardinality({t \in TemplatesNamed(namespace, name) : ~t.is_archived}) <= 1

\* C27: whenever no call is under way, a template that
\* GetWorkspaceTemplate(namespace, uid, 0) returns pairs a version row and a
\* workflow template version of the same version number.
C27_LatestVersionsPaired ==
    AllIdle =>
        \A namespace \in Namespaces, uid \in Names :
            \A j \in GetWorkspaceTemplate(namespace, uid, 0) :
                j.wtv.version = j.wftv.version

\* C28: an archive that returns an error leaves the row of the template it had
\* found non-archived.
C28_FailedArchiveLeavesTemplate ==
    [][\A p \in Procs :
          (Returns(p, "archive") /\ Failed(p)) =>
              \A t \in workspace_templates' : t.id = op[p].ID => ~t.is_archived]_vars

\* C30: every claim template of the stateful set whose storage is the
\* reference to sys-<name>-volume-size finds a parameter of that name in the
\* arguments of the compiled definition.
C30_SizeReferencesResolve ==
    Compiled =>
        LET claims == compile.statefulSetManifest.volumeClaimTemplates
            arguments == NamesOf(compile.workflowTemplateManifest.arguments)
        IN  \A i \in 1 .. Len(claims) :
                claims[i].storage = DynamicStorage(claims[i].Name) =>
                    Occurrences(arguments, VolumeSizeParameter(claims[i].Name).Name) > 0

\* the resource tasks of the branch a phase-set task closes
BranchOf(phase) ==
    CASE phase = "sys-set-phase-running" ->
             {"create-stateful-set", "get-stateful-set", "create-workspace"}
      [] phase = "sys-set-phase-paused" -> {"delete-stateful-set", "delete-workspace"}
      [] phase = "sys-set-phase-terminated" ->
             {"delete-stateful-set", "delete-workspace", "delete-pvc"}

PhaseTasks == {"sys-set-phase-running", "sys-set-phase-paused", "sys-set-phase-terminated"}

\* the phase-set task that executes for a value of sys-workspace-action
PhaseOf(action) ==
    CASE action \in {"create", "update"} -> "sys-set-phase-running"
      [] action = "pause" -> "sys-set-phase-paused"
      [] action = "delete" -> "sys-set-phase-terminated"

Starts(name) == run.status[name] = "pending" /\ run'.status[name] = "running"

\* C21: in every execution that respects the dependency edges, a phase-set
\* task starts only after every resource task of its branch has completed:
\* sys-set-phase-running after create-stateful-set, get-stateful-set and
\* create-workspace; sys-set-phase-paused after delete-stateful-set and
\* delete-workspace; sys-set-phase-terminated after delete-stateful-set,
\* delete-workspace and every item of the delete-pvc fan-out.
C21_PhaseAfterBranch ==
    [][\A phase \in PhaseTasks :
          Starts(phase) =>
              /\ \A name \in BranchOf(phase) : run.status[name] = "succeeded"
              /\ phase = "sys-set-phase-terminated" =>
                     \A i \in DOMAIN run.items : run.items[i] = "succeeded"]_vars

\* sys-set-phase-terminated is running after a fan-out over two items
C21_Witness ==
    /\ run.action = "delete"
    /\ run.status["sys-set-phase-terminated"] = "running"
    /\ Len(run.items) >= 2

HookPresent == PostExecutionTask.Name \in DOMAIN run.status

HookTask == CHOOSE task \in RunTasks : task.Name = PostExecutionTask.Name

\* C22: the post-execution task is in the compiled graph exactly when the
\* spec declares a post-execution workflow; when present it has no guard, it
\* depends on the three phase-set tasks, and for every value of
\* sys-workspace-action it starts only after the phase-set task of that
\* value has completed.
C22_HookAfterPhase ==
    /\ [](/\ HookPresent <=> run.postExecutionWorkflow
          /\ HookPresent => /\ HookTask.When = NoGuard
                            /\ HookTask.Dependencies = PhaseTasks)
    /\ [][HookPresent /\ Starts(PostExecutionTask.Name)
             => run.status[PhaseOf(run.action)] = "succeeded"]_vars

\* the hook runs in an execution for pause, after sys-set-phase-paused
C22_Witness ==
    /\ HookPresent
    /\ run.action = "pause"
    /\ run.status[PostExecutionTask.Name] = "running"
    /\ run.status["sys-set-phase-paused"] = "succeeded"

Succeeds(name) == run.status[name] = "running" /\ run'.status[name] = "succeeded"

\* C23: get-stateful-set succeeds only in a state where the workload has a
\* ready replica and its current revision is the update revision that
\* create-stateful-set output, and only for create or update; create-workspace
\* and sys-set-phase-running start only after it has succeeded; while the
\* workload is on another revision, ready or not, the task cannot succeed.
C23_ReadyAtAppliedRevision ==
    /\ [][/\ Succeeds("get-stateful-set") =>
                /\ run.action \in {"create", "update"}
                /\ run.status["create-stateful-set"] = "succeeded"
                /\ run.workload.readyReplicas > 0
                /\ run.workload.currentRevision = run.outputs
          /\ Starts("create-workspace") \/ Starts("sys-set-phase-running") =>
                run.status["get-stateful-set"] = "succeeded"]_vars
    /\ [](/\ run.status["get-stateful-set"] = "running"
          /\ run.workload.currentRevision # run.outputs
          => ~ENABLED FinishTask("get-stateful-set"))

\* an update whose workload moved to the revision create-stateful-set output,
\* other than the one it was found on, and became ready
C23_Witness ==
    /\ run.action = "update"
    /\ run.status["get-stateful-set"] = "succeeded"
    /\ run.status["sys-set-phase-running"] = "running"
    /\ run.outputs = "rev-2"
    /\ run.workload.currentRevision = "rev-2"

\* the tasks that can have completed after k rounds in which every task
\* whose dependencies have all completed completes
RECURSIVE Completable(_, _)
Completable(done, k) ==
    IF k = 0 THEN done
             ELSE Completable({task.Name : task \in {t \in RunTasks : t.Dependencies \subseteq done}},
                              k - 1)

\* No task waits, directly or through other tasks, for itself or for a task
\* that is not in the graph: the tasks can be put in an order of completion.
Acyclic == Completable({}, Len(run.tasks)) = DOMAIN run.status

Running(name) == name \in DOMAIN run.status /\ run.status[name] = "running"

AllDone == \A name \in DOMAIN run.status : Done(name)

\* C29: the compiled task graph is acyclic and, for every value of
\* sys-workspace-action, if every started task eventually finishes (a skipped
\* task counting as finished for the tasks that depend on it), the execution
\* reaches a state where every task, the post-execution task included, has
\* succeeded or was skipped, and stays there.
C29_EveryTaskCompletes ==
    /\ []Acyclic
    /\ (\A name \in TaskNames : []<>(~Running(name))) => <>[]AllDone

\* a delete with the post-execution task and a fan-out, all of it finished
C29_Witness ==
    /\ run.action = "delete"
    /\ HookPresent
    /\ Len(run.items) >= 1
    /\ AllDone
    /\ run.status[PostExecutionTask.Name] = "succeeded"

Returned == list.pc = "return" /\ list.response # NoResponse

\* C31: for every Page and PageSize of the request, zero and negative ones
\* included, and every number of matching namespaces, ListNamespaces slices
\* with 0 <= start <= end <= total and so never out of range; the Page it
\* returns is between 1 and max(Pages, 1) and Count is the number of
\* namespaces it returns.
C31_PageWithinBounds ==
    Returned =>
        /\ list.response # Panic
        /\ 0 <= list.start
        /\ list.start <= list.end
        /\ list.end <= Len(list.apiNamespaces)
        /\ list.response.Page >= 1
        /\ list.response.Page <= (IF list.response.Pages > 1 THEN list.response.Pages ELSE 1)
        /\ list.response.Count = Len(list.response.Namespaces)

\* the last page, asked for with the largest Page, holds what is left
C31_Witness ==
    /\ Returned
    /\ list.request.Page = MaxInt32
    /\ list.response.Pages = 2
    /\ list.response.Page = 2
    /\ list.response.Count = 1
    /\ Len(list.response.Namespaces) = 1

====
